---- MODULE Spec2Model ----
(***************************************************************************)
(* Model of sql_manager.SqlManager: the fluent statement builder, the      *)
(* renderer, the transaction manager and the execution engine, together    *)
(* with the database driver it calls (connect / cursor / execute /         *)
(* fetchall / close / commit / rollback), each of whose calls may raise.   *)
(*                                                                         *)
(* Text is a sequence of pieces (strings).  An identifier handed in by the *)
(* caller is a sequence of one-character strings, so that splitting on     *)
(* ".", stripping and the identifier pattern are computed character by     *)
(* character.  Rendered SQL is the concatenation of pieces; the            *)
(* placeholder "%s" is one piece.                                          *)
(***************************************************************************)
EXTENDS Integers, Sequences, FiniteSets, TLC

VARIABLES
    table,       \* QueryState.table: [set |-> BOOLEAN, name |-> text]
    selects,     \* QueryState.selects
    wheres,      \* QueryState.wheres
    group_by,    \* QueryState.group_by
    order_by,    \* QueryState.order_by
    rows,        \* QueryState.rows
    joins,       \* QueryState: the join clauses
    havings,     \* QueryState: the having predicates
    limit_offset, \* QueryState: <<>>, <<limit>> or <<limit, offset>>
    nExt,        \* join, having and limit calls made so far
    in_tx,       \* SqlManager._in_tx
    tx_conn,     \* SqlManager._tx_conn: 0 is None, else a connection id
    last_query,  \* SqlManager._last_query
    last_params, \* SqlManager._last_params
    conns,       \* the driver's connections, in order of creation
    op,          \* the most recent call on the manager
    result,      \* how that call ended: "ok" or the exception raised
    calls,       \* the driver calls that call made, in order
    ret,         \* what that call returned (<<>> when it returns None or raises)
    transaction_at, \* the generators of transaction() suspended at their yield:
                 \* the with statements over it that are open
    nClause,     \* clause-adding fluent calls made so far
    nFault       \* driver calls that raised so far

vars == <<table, selects, wheres, group_by, order_by, rows,
          joins, havings, limit_offset, nExt, in_tx, tx_conn,
          last_query, last_params, conns, op, result, calls, ret, transaction_at,
          nClause, nFault>>

\* the fields of QueryState that sql_manager.py does not have: the ones of
\* the join, having and limit methods of the builder surface, with the
\* count of the calls of these methods
ext_vars == <<joins, havings, limit_offset, nExt>>
state_vars == <<table, selects, wheres, group_by, order_by, rows, ext_vars>>
tx_vars == <<in_tx, tx_conn>>
last_vars == <<last_query, last_params>>

-----------------------------------------------------------------------------
(* Bounds of the exploration. *)

\* clause-adding fluent calls (where*, select, set, sets, group_by, order_by) in one behaviour
MaxClauses == 2
\* connections that may be open in the driver at a time
MaxConns == 1
\* driver calls that raise in one behaviour
MaxFaults == 1
\* join, having and limit calls in one behaviour
MaxExtClauses == 3
\* characters of an identifier given to _quote_identifier
MaxIdentLen == 3
\* with statements over transaction() open at a time
MaxNesting == 2

-----------------------------------------------------------------------------
(* Characters and the identifier pattern. *)

Letters == {"a", "b", "c", "s", "t", "x"}
Digits == {"1"}
Underscore == "_"
Newline == "\n"
Whitespace == {" ", Newline}
\* the backquote character that MySQL quotes identifiers with
Backquote == "[bq]"

RECURSIVE Flatten(_)
Flatten(ss) == IF ss = <<>> THEN <<>> ELSE Head(ss) \o Flatten(Tail(ss))

\* sep.join(items), each item a text
RECURSIVE Join(_, _)
Join(items, sep) ==
    IF items = <<>> THEN <<>>
    ELSE IF Len(items) = 1 THEN items[1]
    ELSE items[1] \o sep \o Join(Tail(items), sep)

\* str.split(ch): the maximal pieces between occurrences of ch
RECURSIVE Split(_, _)
Split(s, ch) ==
    IF \A i \in 1..Len(s) : s[i] # ch THEN <<s>>
    ELSE LET k == CHOOSE i \in 1..Len(s) :
                      s[i] = ch /\ \A j \in 1..(i - 1) : s[j] # ch
         IN  <<SubSeq(s, 1, k - 1)>> \o Split(SubSeq(s, k + 1, Len(s)), ch)

\* str.strip(): leading and trailing whitespace removed
RECURSIVE Strip(_)
Strip(s) ==
    IF s = <<>> THEN s
    ELSE IF s[1] \in Whitespace THEN Strip(Tail(s))
    ELSE IF s[Len(s)] \in Whitespace THEN Strip(SubSeq(s, 1, Len(s) - 1))
    ELSE s

\* the words [A-Za-z_][A-Za-z0-9_]*
IsWord(p) ==
    /\ Len(p) >= 1
    /\ p[1] \in Letters \cup {Underscore}
    /\ \A i \in 2..Len(p) : p[i] \in Letters \cup Digits \cup {Underscore}

\* _IDENT_RE.match(p) for r"^[A-Za-z_][A-Za-z0-9_]*$": re.match anchors at the
\* start, and "$" matches at the end of the string and also just before a
\* newline that ends the string.
IdentReMatch(p) ==
    \/ IsWord(p)
    \/ /\ Len(p) >= 2
       /\ p[Len(p)] = Newline
       /\ IsWord(SubSeq(p, 1, Len(p) - 1))

\* the loop and the return of _quote_identifier over the split parts
QuoteParts(parts) ==
    IF \E i \in 1..Len(parts) : ~IdentReMatch(parts[i])
    THEN [ok |-> FALSE, sql |-> <<>>]
    ELSE [ok |-> TRUE,
          sql |-> Join([i \in 1..Len(parts) |-> <<Backquote>> \o parts[i] \o <<Backquote>>],
                       <<".">>)]

\* _quote_identifier: [ok |-> no ValueError, sql |-> the quoted text]
QuoteIdentifier(ident) == QuoteParts(Split(ident, "."))

-----------------------------------------------------------------------------
(* Exceptions.  Every validation and identifier error is a ValueError. *)

Ok == "ok"
ErrNoTable == "ValueError: Table is not set. Call from_table('...') first."
ErrIdent == "ValueError: Invalid identifier"
ErrNoInsert == "ValueError: No data to insert. Use set()/sets() first."
ErrNoUpdate == "ValueError: No data to update. Use set() first."
ErrUpdateNoWhere == "ValueError: UPDATE without WHERE is blocked for safety."
ErrDeleteNoWhere == "ValueError: DELETE without WHERE is blocked for safety."
ErrNoCols == "ValueError: Insert row has no columns."
ErrMismatch == "ValueError: All rows in sets() must have the same columns and order."
ErrEmptyPayload == "ValueError: Update payload is empty."
ErrSetsEmpty == "ValueError: sets() received an empty list."
ErrSetsType == "ValueError: sets() expects dict or list[dict]."
ErrNotIterable == "TypeError: object is not iterable"
ErrIndex == "IndexError: tuple index out of range"
DriverError == "DriverError"

\* the validation errors of the having and limit methods
ErrHavingNoGroup == "ValueError: HAVING without GROUP BY"
ErrNegativeLimit == "ValueError: limit and offset must not be negative"

ValueErrors == {ErrNoTable, ErrIdent, ErrNoInsert, ErrNoUpdate, ErrUpdateNoWhere,
                ErrDeleteNoWhere, ErrNoCols, ErrMismatch, ErrEmptyPayload,
                ErrSetsEmpty, ErrSetsType, ErrHavingNoGroup, ErrNegativeLimit}

-----------------------------------------------------------------------------
(* Values of the builder. *)

\* a where value: a scalar, a list, or None
Scalar(v) == [kind |-> "scalar", items |-> <<v>>]
List(vs) == [kind |-> "list", items |-> vs]
NoValue == [kind |-> "none", items |-> <<>>]

\* _WhereClause
WhereClause(column, o, value) == [column |-> column, op |-> o, value |-> value]

\* a row payload: a dict, as the sequence of its items in insertion order
Keys(row) == [i \in 1..Len(row) |-> row[i].k]
\* the values of a row taken last column first
ValuesReversed(row) == [i \in 1..Len(row) |-> row[Len(row) + 1 - i].v]
Values(row) == [i \in 1..Len(row) |-> row[i].v]
HasKey(row, k) == \E i \in 1..Len(row) : row[i].k = k

\* dict.update(data): a key already present keeps its place and takes the new
\* value, a new key is appended
RECURSIVE DictUpdate(_, _)
DictUpdate(row, data) ==
    IF data = <<>> THEN row
    ELSE LET it == Head(data)
             r1 == IF HasKey(row, it.k)
                   THEN [i \in 1..Len(row) |->
                            IF row[i].k = it.k THEN it ELSE row[i]]
                   ELSE Append(row, it)
         IN  DictUpdate(r1, Tail(data))

\* dict(data): a copy; a repeated key cannot occur in a dict
Dict(data) == DictUpdate(<<>>, data)

\* the parameter None / a tuple of parameters
NoParams == [none |-> TRUE, items |-> <<>>]
Tuple(ps) == [none |-> FALSE, items |-> ps]

Placeholder == "%s"
Repeat(x, n) == [i \in 1..n |-> x]

-----------------------------------------------------------------------------
(* Query renderer.  A render result is [err, sql, params]; err is Ok or    *)
(* the exception that aborted the rendering.                               *)

Rendered(sql, params) == [err |-> Ok, sql |-> sql, params |-> params]
Failed(err) == [err |-> err, sql |-> <<>>, params |-> <<>>]

\* an IN / NOT IN branch that renders the placeholder list of any collection
RenderInAnyList(col, o, values) ==
    Rendered(col.sql \o <<" ", o, " (">>
               \o Join(Repeat(<<Placeholder>>, Len(values)), <<", ">>)
               \o <<")">>,
             values)

\* the IN / NOT IN branch of _render_where, values being list(clause.value or [])
RenderIn(col, o, values) ==
    IF values = <<>>
    THEN Rendered(IF o = "IN" THEN <<"1=0">> ELSE <<"1=1">>, <<>>)
    ELSE Rendered(col.sql \o <<" ", o, " (">>
                    \o Join(Repeat(<<Placeholder>>, Len(values)), <<", ">>)
                    \o <<")">>,
                  values)

\* the body of the loop of _render_where, col being the quoted column
RenderClauseWith(clause, col) ==
    IF ~col.ok THEN Failed(ErrIdent)
    ELSE IF clause.op \in {"IS NULL", "IS NOT NULL"}
    THEN Rendered(col.sql \o <<" ", clause.op>>, <<>>)
    ELSE IF clause.op \in {"IN", "NOT IN"}
    THEN RenderIn(col, clause.op,
                  IF clause.value.kind = "list" THEN clause.value.items ELSE <<>>)
    ELSE Rendered(col.sql \o <<" ", clause.op, " ", Placeholder>>, clause.value.items)

\* one clause of _render_where: [err, sql, params]
RenderClause(clause) == RenderClauseWith(clause, QuoteIdentifier(clause.column))

\* a clause before the clauses after it: the first error aborts
ConsClause(c, rest) ==
    IF c.err # Ok THEN [err |-> c.err, pieces |-> <<>>, params |-> <<>>]
    ELSE IF rest.err # Ok THEN rest
    ELSE [err |-> Ok,
          pieces |-> <<c.sql>> \o rest.pieces,
          params |-> c.params \o rest.params]

\* the loop of _render_where: the pieces and the parameters, or the first error
RECURSIVE RenderClauses(_)
RenderClauses(ws) ==
    IF ws = <<>> THEN [err |-> Ok, pieces |-> <<>>, params |-> <<>>]
    ELSE ConsClause(RenderClause(Head(ws)), RenderClauses(Tail(ws)))

\* the return of _render_where
WhereText(r) ==
    IF r.err # Ok THEN Failed(r.err)
    ELSE Rendered(<<" WHERE ">> \o Join(r.pieces, <<" AND ">>), r.params)

RenderWhere(ws) ==
    IF ws = <<>> THEN Rendered(<<>>, <<>>) ELSE WhereText(RenderClauses(ws))

\* a name of a group-by or order-by term, q being the quoted name
QuotedTerm(q) == IF q.ok THEN Rendered(q.sql, <<>>) ELSE Failed(ErrIdent)

\* a group-by or order-by term: a SqlExpr is rendered as it is, a name is quoted
RenderTerm(c) ==
    IF c.raw THEN Rendered(c.text, <<>>) ELSE QuotedTerm(QuoteIdentifier(c.text))

RenderTerms(cs) == [i \in 1..Len(cs) |-> RenderTerm(cs[i])]

GroupByText(cols) ==
    IF \E i \in 1..Len(cols) : cols[i].err # Ok THEN Failed(ErrIdent)
    ELSE Rendered(<<" GROUP BY ">>
                    \o Join([i \in 1..Len(cols) |-> cols[i].sql], <<", ">>),
                  <<>>)

RenderGroupBy(gs) ==
    IF gs = <<>> THEN Rendered(<<>>, <<>>) ELSE GroupByText(RenderTerms(gs))

OrderByText(os, cols) ==
    IF \E i \in 1..Len(cols) : cols[i].err # Ok THEN Failed(ErrIdent)
    ELSE Rendered(<<" ORDER BY ">>
                    \o Join([i \in 1..Len(cols) |-> cols[i].sql \o <<" ", os[i].dir>>],
                            <<", ">>),
                  <<>>)

RenderOrderBy(os) ==
    IF os = <<>> THEN Rendered(<<>>, <<>>) ELSE OrderByText(os, RenderTerms(os))

\* _render_selects: every term was rendered by select()
RenderSelects(ss) == [i \in 1..Len(ss) |-> ss[i].sql]

QuoteAll(cols) == [i \in 1..Len(cols) |-> QuoteIdentifier(cols[i])]

\* a comparison of the columns that ignores their order
ColumnsDifferAsSets(r, cols) ==
    {r[i].k : i \in 1..Len(r)} # {cols[i] : i \in 1..Len(cols)}
\* list(r.keys()) != cols
ColumnsDiffer(r, cols) == Keys(r) # cols

\* _render_insert, cols being the keys of the first row and quoted their quoting
InsertText(rs, cols, quoted) ==
    IF cols = <<>> THEN Failed(ErrNoCols)
    ELSE IF \E i \in 1..Len(rs) : ColumnsDiffer(rs[i], cols) THEN Failed(ErrMismatch)
    ELSE IF \E i \in 1..Len(cols) : ~quoted[i].ok THEN Failed(ErrIdent)
    ELSE Rendered(<<"(">>
                    \o Join([i \in 1..Len(cols) |-> quoted[i].sql], <<", ">>)
                    \o <<") VALUES ">>
                    \o Join([i \in 1..Len(rs) |->
                                <<"(">>
                                \o Join(Repeat(<<Placeholder>>, Len(cols)), <<", ">>)
                                \o <<")">>],
                            <<", ">>),
                  Flatten([i \in 1..Len(rs) |-> Values(rs[i])]))

RenderInsert(rs) == InsertText(rs, Keys(rs[1]), QuoteAll(Keys(rs[1])))

\* _render_update, row being the first row and quoted the quoting of its keys
UpdateText(row, quoted) ==
    IF row = <<>> THEN Failed(ErrEmptyPayload)
    ELSE IF \E i \in 1..Len(row) : ~quoted[i].ok THEN Failed(ErrIdent)
    ELSE Rendered(Join([i \in 1..Len(row) |->
                           quoted[i].sql \o <<" = ", Placeholder>>], <<", ">>),
                  Values(row))

\* a _render_update that takes the row added last
RenderUpdateLastRow(rs) == UpdateText(rs[Len(rs)], QuoteAll(Keys(rs[Len(rs)])))

RenderUpdate(rs) == UpdateText(rs[1], QuoteAll(Keys(rs[1])))

\* The join clauses: each is [kind, table, on], kind being "INNER", "LEFT" or
\* "CROSS" and on the raw condition (none for CROSS).  The joined table is
\* quoted as an identifier when the statement is built; the condition is
\* rendered as it is.
JoinWord(kind) ==
    IF kind = "INNER" THEN " INNER JOIN "
    ELSE IF kind = "LEFT" THEN " LEFT JOIN "
    ELSE " CROSS JOIN "

\* one join, q being the quoted joined table
JoinText(j, q) ==
    IF ~q.ok THEN Failed(ErrIdent)
    ELSE Rendered(<<JoinWord(j.kind)>> \o q.sql
                    \o (IF j.kind = "CROSS" THEN <<>> ELSE <<" ON ">> \o j.on),
                  <<>>)

\* the joins one after the other, texts being their renderings
JoinsText(texts) ==
    IF \E i \in 1..Len(texts) : texts[i].err # Ok THEN Failed(ErrIdent)
    ELSE Rendered(Flatten([i \in 1..Len(texts) |-> texts[i].sql]), <<>>)

RenderJoins(js) ==
    JoinsText([i \in 1..Len(js) |-> JoinText(js[i], QuoteIdentifier(js[i].table))])

\* a HAVING that is rendered whether or not there is a GROUP BY
NoGroupByNeverMissing(gs) == FALSE

\* the guard of HAVING: no group_by term was set
NoGroupBy(gs) == gs = <<>>

\* The having predicates: each is [term, op, value], the term a name or a
\* raw expression as in group_by; they are joined with AND
HavingText(hs, terms) ==
    IF \E i \in 1..Len(terms) : terms[i].err # Ok THEN Failed(ErrIdent)
    ELSE Rendered(<<" HAVING ">>
                    \o Join([i \in 1..Len(hs) |->
                                terms[i].sql \o <<" ", hs[i].op, " ", Placeholder>>],
                            <<" AND ">>),
                  [i \in 1..Len(hs) |-> hs[i].value])

HavingTerms(hs) == [i \in 1..Len(hs) |-> RenderTerm(hs[i].term)]

RenderHaving(hs, gs) ==
    IF hs = <<>> THEN Rendered(<<>>, <<>>)
    ELSE IF NoGroupBy(gs) THEN Failed(ErrHavingNoGroup)
    ELSE HavingText(hs, HavingTerms(hs))

\* LIMIT %s, or LIMIT %s OFFSET %s, the two bound as parameters
RenderLimit(lo) ==
    IF lo = <<>> THEN Rendered(<<>>, <<>>)
    ELSE IF Len(lo) = 1 THEN Rendered(<<" LIMIT ", Placeholder>>, lo)
    ELSE Rendered(<<" LIMIT ", Placeholder, " OFFSET ", Placeholder>>, lo)

\* a renderer that collects the parameters of a later part first
ThenParamsReversed(a, b) ==
    IF a.err # Ok THEN a
    ELSE IF b.err # Ok THEN b
    ELSE Rendered(a.sql \o b.sql, b.params \o a.params)

\* two rendered parts in text order; the first error aborts
Then(a, b) ==
    IF a.err # Ok THEN a
    ELSE IF b.err # Ok THEN b
    ELSE Rendered(a.sql \o b.sql, a.params \o b.params)

\* the projection of a SELECT or COUNT statement
SelectSql(kind) ==
    IF kind = "COUNT" THEN <<"COUNT(*)">>
    ELSE IF selects = <<>> THEN <<"*">>
    ELSE Join(RenderSelects(selects), <<", ">>)

\* a builder whose UPDATE and DELETE never find the WHERE missing
WheresNeverMissing == FALSE

\* not self._state.wheres, the guard of UPDATE and DELETE
NoWheres == wheres = <<>>

\* not self._state.rows, the guard of INSERT and UPDATE
NoRows == rows = <<>>

\* rendered parts in text order
RECURSIVE ThenAll(_)
ThenAll(parts) ==
    IF Len(parts) = 1 THEN parts[1]
    ELSE Then(parts[1], ThenAll(Tail(parts)))

\* a SELECT that renders ORDER BY before GROUP BY and HAVING
SelectPartsOrderByFirst(kind, t) ==
    <<Rendered(<<"SELECT ">> \o SelectSql(kind) \o <<" FROM ">> \o t.sql, <<>>),
      RenderJoins(joins),
      RenderWhere(wheres),
      RenderOrderBy(order_by),
      RenderGroupBy(group_by),
      RenderHaving(havings, group_by),
      RenderLimit(limit_offset)>>

\* the parts of a SELECT or COUNT statement, t being the quoted table
SelectParts(kind, t) ==
    <<Rendered(<<"SELECT ">> \o SelectSql(kind) \o <<" FROM ">> \o t.sql, <<>>),
      RenderJoins(joins),
      RenderWhere(wheres),
      RenderGroupBy(group_by),
      RenderHaving(havings, group_by),
      RenderOrderBy(order_by),
      RenderLimit(limit_offset)>>

\* _build_query once the table is there, t being the quoted table
BuildWith(kind, t) ==
    IF ~t.ok THEN Failed(ErrIdent)
    ELSE IF kind \in {"SELECT", "COUNT"}
    THEN ThenAll(SelectParts(kind, t))
    ELSE IF kind = "INSERT"
    THEN IF NoRows THEN Failed(ErrNoInsert)
         ELSE Then(Rendered(<<"INSERT INTO ">> \o t.sql \o <<" ">>, <<>>),
                   RenderInsert(rows))
    ELSE IF kind = "UPDATE"
    THEN IF NoRows THEN Failed(ErrNoUpdate)
         ELSE IF NoWheres THEN Failed(ErrUpdateNoWhere)
         ELSE Then(Then(Rendered(<<"UPDATE ">> \o t.sql \o <<" SET ">>, <<>>),
                        RenderUpdate(rows)),
                   RenderWhere(wheres))
    ELSE IF NoWheres THEN Failed(ErrDeleteNoWhere)
    ELSE Then(Rendered(<<"DELETE FROM ">> \o t.sql, <<>>), RenderWhere(wheres))

\* not self._state.table: None and the empty string alike
NoTable == ~table.set \/ table.name = <<>>

\* _build_query without its reset: [err, sql, params]
BuildQuery(kind) ==
    IF NoTable THEN Failed(ErrNoTable)
    ELSE BuildWith(kind, QuoteIdentifier(table.name))

-----------------------------------------------------------------------------
(* Fluent builder.  A fluent call makes no driver call.                    *)

\* a fluent call that clears the last-statement record
FluentClearsRecord(name, res) ==
    /\ op' = name
    /\ result' = res
    /\ calls' = <<>>
    /\ ret' = <<>>
    /\ last_query' = <<>>
    /\ last_params' = NoParams
    /\ UNCHANGED <<transaction_at, tx_vars, conns, nFault>>

Fluent(name, res) ==
    /\ op' = name
    /\ result' = res
    /\ calls' = <<>>
    /\ ret' = <<>>
    /\ UNCHANGED transaction_at
    /\ UNCHANGED <<tx_vars, last_vars, conns, nFault>>

\* clause-adding calls are counted against MaxClauses
Counted ==
    /\ nClause < MaxClauses
    /\ nClause' = nClause + 1

from_table(t) ==
    /\ table' = [set |-> TRUE, name |-> t]
    /\ UNCHANGED <<selects, wheres, group_by, order_by, rows, ext_vars, nClause>>
    /\ Fluent("from_table", Ok)

_add_where(name, column, o, value) ==
    /\ Counted
    /\ wheres' = Append(wheres, WhereClause(column, o, value))
    /\ UNCHANGED <<table, selects, group_by, order_by, rows, ext_vars>>
    /\ Fluent(name, Ok)

where(column, v) == _add_where("where", column, "=", Scalar(v))
where_gt(column, v) == _add_where("where_gt", column, ">", Scalar(v))
where_gte(column, v) == _add_where("where_gte", column, ">=", Scalar(v))
where_lt(column, v) == _add_where("where_lt", column, "<", Scalar(v))
where_lte(column, v) == _add_where("where_lte", column, "<=", Scalar(v))
where_like(column, v) == _add_where("where_like", column, "LIKE", Scalar(v))
where_in(column, vs) == _add_where("where_in", column, "IN", List(vs))
where_not_in(column, vs) == _add_where("where_not_in", column, "NOT IN", List(vs))
where_is_null(column) == _add_where("where_is_null", column, "IS NULL", NoValue)
where_is_not_null(column) == _add_where("where_is_not_null", column, "IS NOT NULL", NoValue)

\* the term select() appends, q and a being the quoted column and alias
SelectTermWith(column, as_column, q, a) ==
    IF ~column.raw /\ ~q.ok THEN Failed(ErrIdent)
    ELSE IF as_column # <<>> /\ ~a.ok THEN Failed(ErrIdent)
    ELSE Rendered((IF column.raw THEN column.text ELSE q.sql)
                    \o (IF as_column # <<>> THEN <<" AS ">> \o a.sql ELSE <<>>),
                  <<>>)

\* select(column, as_column): column is [raw, text], raw for a SqlExpr;
\* as_column is <<>> when no alias is given
SelectTerm(column, as_column) ==
    SelectTermWith(column, as_column,
                   QuoteIdentifier(column.text), QuoteIdentifier(as_column))

SelectAppend(column, sel) ==
    /\ selects' = IF sel.err = Ok
                  THEN Append(selects, [raw |-> column.raw, sql |-> sel.sql])
                  ELSE selects
    /\ Fluent("select", sel.err)

select(column, as_column) ==
    /\ Counted
    /\ SelectAppend(column, SelectTerm(column, as_column))
    /\ UNCHANGED <<table, wheres, group_by, order_by, rows, ext_vars>>

\* set(column, value) is set({column: value}); data is the dict given
\* a set() that starts the where clauses afresh
set_forgets_wheres(data) ==
    /\ Counted
    /\ rows' = IF rows # <<>>
               THEN [rows EXCEPT ![1] = DictUpdate(rows[1], data)]
               ELSE Append(rows, Dict(data))
    /\ wheres' = <<>>
    /\ UNCHANGED <<table, selects, group_by, order_by, ext_vars>>
    /\ Fluent("set", Ok)

set(data) ==
    /\ Counted
    /\ rows' = IF rows # <<>>
               THEN [rows EXCEPT ![1] = DictUpdate(rows[1], data)]
               ELSE Append(rows, Dict(data))
    /\ UNCHANGED <<table, selects, wheres, group_by, order_by, ext_vars>>
    /\ Fluent("set", Ok)

\* sets(data): data is [kind |-> "dict", items] or [kind |-> "list", elems],
\* an element being [dict |-> BOOLEAN, items]; a non-dict element is a number
SetsOutcome(data) ==
    IF data.kind = "dict" THEN [err |-> Ok, rows |-> Append(rows, Dict(data.items))]
    ELSE IF data.elems = <<>> THEN [err |-> ErrSetsEmpty, rows |-> rows]
    ELSE IF ~data.elems[1].dict THEN [err |-> ErrSetsType, rows |-> rows]
    ELSE IF \E i \in 1..Len(data.elems) : ~data.elems[i].dict
    THEN [err |-> ErrNotIterable, rows |-> rows]
    ELSE [err |-> Ok,
          rows |-> rows \o [i \in 1..Len(data.elems) |-> Dict(data.elems[i].items)]]

SetsApply(out) ==
    /\ rows' = out.rows
    /\ Fluent("sets", out.err)

sets(data) ==
    /\ Counted
    /\ SetsApply(SetsOutcome(data))
    /\ UNCHANGED <<table, selects, wheres, group_by, order_by, ext_vars>>

\* the non-empty stripped items of a list of texts
RECURSIVE StripAll(_)
StripAll(items) ==
    IF items = <<>> THEN <<>>
    ELSE (IF Strip(Head(items)) # <<>> THEN <<Strip(Head(items))>> ELSE <<>>)
         \o StripAll(Tail(items))

\* group_by(columns): columns is [kind |-> "expr", text], [kind |-> "str", text]
\* or [kind |-> "list", items]
NameTerms(cols) == [i \in 1..Len(cols) |-> [raw |-> FALSE, text |-> cols[i]]]

GroupByTerms(columns) ==
    IF columns.kind = "expr" THEN <<[raw |-> TRUE, text |-> columns.text]>>
    ELSE IF columns.kind = "str" THEN NameTerms(StripAll(Split(columns.text, ",")))
    ELSE NameTerms(StripAll(columns.items))

group_by_(columns) ==
    /\ Counted
    /\ group_by' = GroupByTerms(columns)
    /\ UNCHANGED <<table, selects, wheres, order_by, rows, ext_vars>>
    /\ Fluent("group_by", Ok)

\* order_by_asc / order_by_desc(columns): columns is a list of [raw, text]
OrderTerms(columns, dir) ==
    [i \in 1..Len(columns) |->
        [raw |-> columns[i].raw, text |-> columns[i].text, dir |-> dir]]

order_by_asc(columns) ==
    /\ Counted
    /\ order_by' = order_by \o OrderTerms(columns, "ASC")
    /\ UNCHANGED <<table, selects, wheres, group_by, rows, ext_vars>>
    /\ Fluent("order_by_asc", Ok)

order_by_desc(columns) ==
    /\ Counted
    /\ order_by' = order_by \o OrderTerms(columns, "DESC")
    /\ UNCHANGED <<table, selects, wheres, group_by, rows, ext_vars>>
    /\ Fluent("order_by_desc", Ok)

\* join, having and limit calls are counted against MaxExtClauses
CountedExt ==
    /\ nExt < MaxExtClauses
    /\ nExt' = nExt + 1

\* The join, having and limit methods of the builder surface.  Joins and
\* havings are appended; limit replaces what was set.
_add_join(name, kind, t, on) ==
    /\ CountedExt
    /\ joins' = Append(joins, [kind |-> kind, table |-> t, on |-> on])
    /\ UNCHANGED <<table, selects, wheres, group_by, order_by, rows, havings,
                   limit_offset, nClause>>
    /\ Fluent(name, Ok)

inner_join(t, on) == _add_join("inner_join", "INNER", t, on)
left_join(t, on) == _add_join("left_join", "LEFT", t, on)
cross_join(t) == _add_join("cross_join", "CROSS", t, <<>>)

_add_having(name, term, o, value) ==
    /\ CountedExt
    /\ havings' = Append(havings, [term |-> term, op |-> o, value |-> value])
    /\ UNCHANGED <<table, selects, wheres, group_by, order_by, rows, joins,
                   limit_offset, nClause>>
    /\ Fluent(name, Ok)

having_gt(term, v) == _add_having("having_gt", term, ">", v)
having_gte(term, v) == _add_having("having_gte", term, ">=", v)
having_lt(term, v) == _add_having("having_lt", term, "<", v)
having_lte(term, v) == _add_having("having_lte", term, "<=", v)

\* a limit that takes any number
NegativeNever(n, offset) == FALSE

\* n or the offset, when there is one, is negative
Negative(n, offset) == n < 0 \/ (offset # <<>> /\ offset[1] < 0)

\* limit(n, offset): offset is <<>> when it is not given, else <<offset>>
limit(n, offset) ==
    /\ CountedExt
    /\ limit_offset' = IF Negative(n, offset) THEN limit_offset ELSE <<n>> \o offset
    /\ UNCHANGED <<table, selects, wheres, group_by, order_by, rows, joins,
                   havings, nClause>>
    /\ Fluent("limit", IF Negative(n, offset) THEN ErrNegativeLimit ELSE Ok)

-----------------------------------------------------------------------------
(* The driver.  conns[i] is the connection with id i; a connection that is *)
(* closed and has no open cursor is free again.  A driver call in the set  *)
(* F of a call on the manager raises.  pending says that the connection,   *)
(* opened with autocommit off, has executed a write that is neither        *)
(* committed nor rolled back: a write on an autocommit connection takes    *)
(* effect at once, a pending one takes effect when commit returns and is   *)
(* discarded by rollback or close.                                         *)

DriverCalls == {"connect", "cursor", "execute", "fetchall", "cursor.close",
                "close", "commit", "rollback"}

\* the calls of a call on the manager that raised
RECURSIVE Raises(_)
Raises(cs) ==
    IF cs = <<>> THEN 0
    ELSE (IF Head(cs).raised THEN 1 ELSE 0) + Raises(Tail(cs))

Faulted(cs) ==
    /\ nFault + Raises(cs) <= MaxFaults
    /\ nFault' = nFault + Raises(cs)

FreeConn == [open |-> FALSE, autocommit |-> FALSE, cursors |-> 0, pending |-> FALSE]
IsFree(c) == ~c.open /\ c.cursors = 0
FreeIds == {i \in 1..MaxConns : IsFree(conns[i])}
NewConn == CHOOSE i \in FreeIds : \A j \in FreeIds : i <= j

Opened(cs, id, autocommit) ==
    [cs EXCEPT ![id] = [open |-> TRUE, autocommit |-> autocommit, cursors |-> 0,
                        pending |-> FALSE]]
Closed(cs, id) ==
    [cs EXCEPT ![id] = IF @.cursors = 0 THEN FreeConn
                       ELSE [@ EXCEPT !.open = FALSE, !.pending = FALSE]]
\* commit or rollback returned: nothing is pending on the connection
Settled(cs, id) == [cs EXCEPT ![id].pending = FALSE]
\* execute returned for a statement that fetches nothing (INSERT, UPDATE,
\* DELETE, or raw text that is no SELECT)
Written(cs, id) == [cs EXCEPT ![id].pending = ~cs[id].autocommit]
CursorOpened(cs, id) == [cs EXCEPT ![id].cursors = @ + 1]
CursorClosed(cs, id) ==
    [cs EXCEPT ![id] = IF ~@.open /\ @.cursors = 1 THEN FreeConn
                       ELSE [@ EXCEPT !.cursors = @ - 1]]

-----------------------------------------------------------------------------
(* Connection / cursor and the execution engine. *)

\* _get_connection opens a connection unless a transaction has one cached
NeedsConnect == ~in_tx \/ tx_conn = 0

\* a _connect that never caches the connection of a transaction
ConnectNotCached(autocommit, raised, id) ==
    [calls |-> <<[call |-> "connect", conn |-> id,
                  autocommit |-> autocommit, raised |-> raised]>>,
     raised |-> raised,
     conn |-> id,
     conns |-> IF raised THEN conns ELSE Opened(conns, id, autocommit),
     tx_conn |-> tx_conn]

\* _connect(autocommit), the driver handing out the connection id (0 when it raises)
Connect(autocommit, raised, id) ==
    [calls |-> <<[call |-> "connect", conn |-> id,
                  autocommit |-> autocommit, raised |-> raised]>>,
     raised |-> raised,
     conn |-> id,
     conns |-> IF raised THEN conns ELSE Opened(conns, id, autocommit),
     tx_conn |-> IF in_tx /\ ~raised THEN id ELSE tx_conn]

\* a _get_connection that asks for autocommit inside a transaction too
GetConnectionAutocommit(F) ==
    IF in_tx /\ tx_conn # 0
    THEN [calls |-> <<>>, raised |-> FALSE, conn |-> tx_conn,
          conns |-> conns, tx_conn |-> tx_conn]
    ELSE Connect(TRUE, "connect" \in F, IF "connect" \in F THEN 0 ELSE NewConn)

\* _get_connection: [calls, raised, conn, conns, tx_conn]
GetConnection(F) ==
    IF in_tx /\ tx_conn # 0
    THEN [calls |-> <<>>, raised |-> FALSE, conn |-> tx_conn,
          conns |-> conns, tx_conn |-> tx_conn]
    ELSE Connect(~in_tx, "connect" \in F, IF "connect" \in F THEN 0 ELSE NewConn)

\* _get_cursor: [calls, raised, conns]
GetCursor(cs, conn, is_dict_cursor, F) ==
    [calls |-> <<[call |-> "cursor", conn |-> conn,
                  dict |-> is_dict_cursor, raised |-> "cursor" \in F]>>,
     raised |-> "cursor" \in F,
     conns |-> IF "cursor" \in F THEN cs ELSE CursorOpened(cs, conn)]

ExecuteCall(conn, sql, params, F) ==
    [call |-> "execute", conn |-> conn, sql |-> sql, params |-> params,
     raised |-> "execute" \in F]
\* cur.fetchall(), rows being what it returns when it does not raise
FetchallCall(conn, F, fetched) ==
    [call |-> "fetchall", conn |-> conn, raised |-> "fetchall" \in F,
     rows |-> IF "fetchall" \in F THEN <<>> ELSE fetched]

\* the try block of _execute and raw_execute: execute, then the fetch that
\* the statement asks for ("rows", "scalar" or "none"): [calls, err, ret, executed]
TryBlock(conn, sql, params, fetch, F, fetched) ==
    IF "execute" \in F
    THEN [calls |-> <<ExecuteCall(conn, sql, params, F)>>,
          err |-> DriverError, ret |-> <<>>, executed |-> FALSE]
    ELSE IF fetch = "none"
    THEN [calls |-> <<ExecuteCall(conn, sql, params, F)>>,
          err |-> Ok, ret |-> <<>>, executed |-> TRUE]
    ELSE [calls |-> <<ExecuteCall(conn, sql, params, F), FetchallCall(conn, F, fetched)>>,
          err |-> IF "fetchall" \in F THEN DriverError
                  ELSE IF fetch = "scalar" /\ fetched = <<>> THEN ErrIndex
                  ELSE Ok,
          ret |-> IF "fetchall" \in F THEN <<>>
                  ELSE IF fetch = "rows" THEN fetched
                  ELSE IF fetched = <<>> THEN <<>>
                  ELSE <<fetched[1][1]>>,
          executed |-> TRUE]

\* the connections after the try block
AfterTry(cs, conn, fetch, F) ==
    IF fetch = "none" /\ "execute" \notin F
    THEN Written(cs, conn)
    ELSE cs

CursorCloseCall(conn, F) ==
    [call |-> "cursor.close", conn |-> conn, raised |-> "cursor.close" \in F]
CloseCall(conn, F) == [call |-> "close", conn |-> conn, raised |-> "close" \in F]

\* a finally block that closes the connection whether a transaction is open or not
FinallyBlockAlwaysCloses(cs, conn, F) ==
    IF "cursor.close" \in F
    THEN [calls |-> <<CursorCloseCall(conn, F)>>, err |-> DriverError, conns |-> cs]
    ELSE IF "close" \in F
    THEN [calls |-> <<CursorCloseCall(conn, F), CloseCall(conn, F)>>,
          err |-> DriverError, conns |-> CursorClosed(cs, conn)]
    ELSE [calls |-> <<CursorCloseCall(conn, F), CloseCall(conn, F)>>,
          err |-> Ok, conns |-> Closed(CursorClosed(cs, conn), conn)]

\* the finally block: cur.close(), then _close_if_not_in_tx(conn): [calls, err, conns]
FinallyBlock(cs, conn, F) ==
    IF "cursor.close" \in F
    THEN [calls |-> <<CursorCloseCall(conn, F)>>, err |-> DriverError, conns |-> cs]
    ELSE IF in_tx
    THEN [calls |-> <<CursorCloseCall(conn, F)>>, err |-> Ok,
          conns |-> CursorClosed(cs, conn)]
    ELSE IF "close" \in F
    THEN [calls |-> <<CursorCloseCall(conn, F), CloseCall(conn, F)>>,
          err |-> DriverError, conns |-> CursorClosed(cs, conn)]
    ELSE [calls |-> <<CursorCloseCall(conn, F), CloseCall(conn, F)>>,
          err |-> Ok, conns |-> Closed(CursorClosed(cs, conn), conn)]

\* the outcome of a call whose try block gave t and whose finally block gave f
Finish(c, k, t, f, recordFirst) ==
    [calls |-> c.calls \o k.calls \o t.calls \o f.calls,
     err |-> IF f.err # Ok THEN f.err ELSE t.err,
     ret |-> IF f.err # Ok THEN <<>> ELSE t.ret,
     conns |-> f.conns,
     tx_conn |-> c.tx_conn,
     recorded |-> recordFirst \/ t.executed]

\* the call from the cursor k on
WithCursor(c, k, sql, params, fetch, F, fetched, recordFirst) ==
    IF k.raised
    THEN [calls |-> c.calls \o k.calls, err |-> DriverError, ret |-> <<>>,
          conns |-> k.conns, tx_conn |-> c.tx_conn, recorded |-> FALSE]
    ELSE Finish(c, k, TryBlock(c.conn, sql, params, fetch, F, fetched),
                FinallyBlock(AfterTry(k.conns, c.conn, fetch, F), c.conn, F),
                recordFirst)

\* the call from the connection c on
WithConnection(c, sql, params, fetch, is_dict_cursor, F, fetched, recordFirst) ==
    IF c.raised
    THEN [calls |-> c.calls, err |-> DriverError, ret |-> <<>>,
          conns |-> c.conns, tx_conn |-> c.tx_conn, recorded |-> FALSE]
    ELSE WithCursor(c, GetCursor(c.conns, c.conn, is_dict_cursor, F),
                    sql, params, fetch, F, fetched, recordFirst)

\* connection, cursor, try and finally of _execute (recordFirst: the last
\* statement is recorded before the try) and of raw_execute (~recordFirst:
\* it is recorded after execute): [calls, err, ret, conns, tx_conn, recorded]
Run(sql, params, fetch, is_dict_cursor, F, fetched, recordFirst) ==
    WithConnection(GetConnection(F), sql, params, fetch, is_dict_cursor, F, fetched,
                   recordFirst)

\* a reset that leaves the WHERE clauses pending
ResetKeepsWheres ==
    /\ table' = [set |-> FALSE, name |-> <<>>]
    /\ selects' = <<>>
    /\ group_by' = <<>>
    /\ order_by' = <<>>
    /\ rows' = <<>>
    /\ joins' = <<>>
    /\ havings' = <<>>
    /\ limit_offset' = <<>>
    /\ UNCHANGED nExt
    /\ UNCHANGED wheres

\* a reset that leaves the table set
ResetKeepsTable ==
    /\ selects' = <<>>
    /\ wheres' = <<>>
    /\ group_by' = <<>>
    /\ order_by' = <<>>
    /\ rows' = <<>>
    /\ joins' = <<>>
    /\ havings' = <<>>
    /\ limit_offset' = <<>>
    /\ UNCHANGED nExt
    /\ UNCHANGED table

\* QueryState.reset
Reset ==
    /\ table' = [set |-> FALSE, name |-> <<>>]
    /\ selects' = <<>>
    /\ wheres' = <<>>
    /\ group_by' = <<>>
    /\ order_by' = <<>>
    /\ rows' = <<>>
    /\ joins' = <<>>
    /\ havings' = <<>>
    /\ limit_offset' = <<>>
    /\ UNCHANGED nExt

FetchOf(kind) ==
    IF kind = "SELECT" THEN "rows" ELSE IF kind = "COUNT" THEN "scalar" ELSE "none"

\* tuple(params) if params else None
ParamsOf(params) == IF params # <<>> THEN Tuple(params) ELSE NoParams

\* what a call that went to the driver leaves behind
Ran(name, sql, params, r) ==
    /\ op' = name
    /\ result' = r.err
    /\ calls' = r.calls
    /\ Faulted(r.calls)
    /\ ret' = r.ret
    /\ UNCHANGED transaction_at
    /\ conns' = r.conns
    /\ tx_conn' = r.tx_conn
    /\ last_query' = IF r.recorded THEN sql ELSE last_query
    /\ last_params' = IF r.recorded THEN params ELSE last_params
    /\ UNCHANGED <<in_tx, nClause>>

\* a builder call that validates only after it asked the driver for a connection
RaisedAfterConnect(name, err) ==
    /\ op' = name
    /\ result' = err
    /\ calls' = <<[call |-> "connect", conn |-> 0, autocommit |-> ~in_tx, raised |-> TRUE]>>
    /\ ret' = <<>>
    /\ UNCHANGED transaction_at
    /\ UNCHANGED <<state_vars, tx_vars, last_vars, conns, nClause, nFault>>

\* a builder call that raised before any driver call, the state reset all the same
RaisedAfterReset(name, err) ==
    /\ op' = name
    /\ result' = err
    /\ calls' = <<>>
    /\ ret' = <<>>
    /\ Reset
    /\ UNCHANGED <<transaction_at, tx_vars, last_vars, conns, nClause, nFault>>

\* a builder call that raised before any driver call
Raised(name, err) ==
    /\ op' = name
    /\ result' = err
    /\ calls' = <<>>
    /\ ret' = <<>>
    /\ UNCHANGED transaction_at
    /\ UNCHANGED <<state_vars, tx_vars, last_vars, conns, nClause, nFault>>

\* _quote_identifier(ident) called on its own: it returns the quoted text or
\* raises, and touches nothing of the manager
_quote_identifier(ident) ==
    /\ op' = "_quote_identifier"
    /\ result' = IF QuoteIdentifier(ident).ok THEN Ok ELSE ErrIdent
    /\ calls' = <<>>
    /\ ret' = QuoteIdentifier(ident).sql
    /\ UNCHANGED transaction_at
    /\ UNCHANGED <<state_vars, tx_vars, last_vars, conns, nClause, nFault>>

\* _execute(kind) once _build_query returned or raised q
Execute(name, kind, is_dict_cursor, F, fetched, q) ==
    IF q.err # Ok THEN Raised(name, q.err)
    ELSE /\ NeedsConnect => FreeIds # {}
         /\ Reset
         /\ Ran(name, q.sql, ParamsOf(q.params),
                Run(q.sql, ParamsOf(q.params), FetchOf(kind), is_dict_cursor, F,
                    fetched, TRUE))

\* _execute(kind): _build_query with its reset, then the engine
_execute(name, kind, is_dict_cursor, F, fetched) ==
    Execute(name, kind, is_dict_cursor, F, fetched, BuildQuery(kind))

create(F) == _execute("create", "INSERT", FALSE, F, <<>>)
update(F) == _execute("update", "UPDATE", FALSE, F, <<>>)
delete(F) == _execute("delete", "DELETE", FALSE, F, <<>>)
count(F, fetched) == _execute("count", "COUNT", FALSE, F, fetched)
find_records(is_dict_cursor, F, fetched) ==
    _execute("find_records", "SELECT", is_dict_cursor, F, fetched)

\* str.lower() of a piece of raw SQL
Lower(piece) ==
    IF piece \in {"SELECT", "Select"} THEN "select" ELSE piece

\* query.strip().lower().startswith("select")
StartsWithSelect(query) ==
    Strip(query) # <<>> /\ Lower(Strip(query)[1]) = "select"

\* raw_execute(query, params, is_dict_cursor): params is NoParams or Tuple(..)
raw_execute(query, params, is_dict_cursor, F, fetched) ==
    /\ NeedsConnect => FreeIds # {}
    /\ Ran("raw_execute", query, params,
           Run(query, params, IF StartsWithSelect(query) THEN "rows" ELSE "none",
               is_dict_cursor, F, fetched, FALSE))
    /\ UNCHANGED state_vars

-----------------------------------------------------------------------------
(* Transaction API. *)

\* a begin_transaction that forgets the cached connection
begin_transaction_forgets ==
    /\ in_tx' = TRUE
    /\ tx_conn' = 0
    /\ op' = "begin_transaction"
    /\ result' = Ok
    /\ calls' = <<>>
    /\ ret' = <<>>
    /\ UNCHANGED transaction_at
    /\ UNCHANGED <<state_vars, last_vars, conns, nClause, nFault>>

begin_transaction ==
    /\ in_tx' = TRUE
    /\ op' = "begin_transaction"
    /\ result' = Ok
    /\ calls' = <<>>
    /\ ret' = <<>>
    /\ UNCHANGED transaction_at
    /\ UNCHANGED <<state_vars, tx_conn, last_vars, conns, nClause, nFault>>

\* an end_transaction without the finally: a commit or rollback that raises
\* leaves the connection unclosed
EndCachedNoFinally(first, F) ==
    IF first \in F
    THEN [calls |-> <<[call |-> first, conn |-> tx_conn, raised |-> TRUE]>>,
          err |-> DriverError, conns |-> conns]
    ELSE [calls |-> <<[call |-> first, conn |-> tx_conn, raised |-> FALSE],
                      CloseCall(tx_conn, F)>>,
          err |-> IF "close" \in F THEN DriverError ELSE Ok,
          conns |-> IF "close" \in F THEN conns ELSE Closed(conns, tx_conn)]

\* the try/finally of end_transaction on the cached connection, first being
\* its commit or rollback: [calls, err, conns]
EndCached(first, F) ==
    [calls |-> <<[call |-> first, conn |-> tx_conn, raised |-> first \in F],
                 CloseCall(tx_conn, F)>>,
     err |-> IF first \in F \/ "close" \in F THEN DriverError ELSE Ok,
     conns |-> IF "close" \notin F THEN Closed(conns, tx_conn)
               ELSE IF first \in F THEN conns
               ELSE Settled(conns, tx_conn)]

\* an end_transaction that keeps the connection cached when its close path raised
EndedKeepsFailed(e) ==
    /\ calls' = e.calls
    /\ Faulted(e.calls)
    /\ result' = e.err
    /\ conns' = e.conns
    /\ tx_conn' = IF e.err # Ok THEN tx_conn ELSE 0
    /\ in_tx' = FALSE

Ended(e) ==
    /\ calls' = e.calls
    /\ Faulted(e.calls)
    /\ result' = e.err
    /\ conns' = e.conns
    /\ tx_conn' = 0
    /\ in_tx' = FALSE

\* the name a call end_transaction(success) is observed under
EndOp(success) == IF success THEN "end_transaction(True)" ELSE "end_transaction(False)"

\* the outcome e of a call made with an exception pending: what the call
\* raised, else the pending exception
WithPending(e, pending) == [e EXCEPT !.err = IF @ # Ok THEN @ ELSE pending]

\* end_transaction(is_succeed) observed under name, in a caller that has the
\* exception pending at the call (Ok: none) and raises it when the call returns
EndTransaction(name, pending, is_succeed, F) ==
    /\ op' = name
    /\ ret' = <<>>
    /\ UNCHANGED <<state_vars, last_vars, nClause>>
    /\ IF tx_conn = 0
       THEN /\ in_tx' = FALSE
            /\ result' = pending
            /\ calls' = <<>>
            /\ UNCHANGED <<tx_conn, conns, nFault>>
       ELSE Ended(WithPending(EndCached(IF is_succeed THEN "commit" ELSE "rollback", F),
                              pending))

end_transaction(is_succeed, F) ==
    /\ EndTransaction(EndOp(is_succeed), Ok, is_succeed, F)
    /\ UNCHANGED transaction_at

\* the exception of the body of a with statement that is not one of the manager's
BodyError == "Exception: raised in the with body"

\* transaction() up to its yield: begin_transaction(), ok = False.  With
\* statements nest, each with a generator of its own.
transaction_enter ==
    /\ transaction_at < MaxNesting
    /\ transaction_at' = transaction_at + 1
    /\ in_tx' = TRUE
    /\ op' = "transaction.__enter__"
    /\ result' = Ok
    /\ calls' = <<>>
    /\ ret' = <<>>
    /\ UNCHANGED <<state_vars, tx_conn, last_vars, conns, nClause, nFault>>

\* ok at the finally of transaction() whatever the body did
TransactionOkAlways(exc) == TRUE

\* ok at the finally of transaction(): set only when the body returned
TransactionOk(exc) == exc = Ok

\* a transaction() that ends the transaction only at the exit of the outermost
\* with statement
transaction_exit_outermost(exc, F) ==
    /\ transaction_at > 0
    /\ transaction_at' = transaction_at - 1
    /\ IF transaction_at = 1
       THEN EndTransaction("transaction.__exit__", exc, TransactionOk(exc), F)
       ELSE /\ op' = "transaction.__exit__"
            /\ result' = exc
            /\ calls' = <<>>
            /\ ret' = <<>>
            /\ UNCHANGED <<state_vars, tx_vars, last_vars, conns, nClause, nFault>>

\* transaction() from its yield on, the body having returned (exc is Ok) or
\* raised exc: the finally calls end_transaction(ok), and the with statement
\* raises what end_transaction raised, else what the body raised
transaction_exit(exc, F) ==
    /\ transaction_at > 0
    /\ transaction_at' = transaction_at - 1
    /\ EndTransaction("transaction.__exit__", exc, TransactionOk(exc), F)

-----------------------------------------------------------------------------
(* The state after SqlManager.__init__, and the inputs explored. *)

Init ==
    /\ table = [set |-> FALSE, name |-> <<>>]
    /\ selects = <<>>
    /\ wheres = <<>>
    /\ group_by = <<>>
    /\ order_by = <<>>
    /\ rows = <<>>
    /\ joins = <<>>
    /\ havings = <<>>
    /\ limit_offset = <<>>
    /\ nExt = 0
    /\ in_tx = FALSE
    /\ tx_conn = 0
    /\ last_query = <<>>
    /\ last_params = NoParams
    /\ conns = [i \in 1..MaxConns |-> FreeConn]
    /\ op = "__init__"
    /\ result = Ok
    /\ calls = <<>>
    /\ ret = <<>>
    /\ transaction_at = 0
    /\ nClause = 0
    /\ nFault = 0

\* names: one that is an identifier, one with a character outside the
\* pattern, one ending in a newline, and the empty string
NameT == <<"t">>
NameBadT == <<"t", "-">>
NameNlT == <<"t", Newline>>
NameA == <<"a">>
NameB == <<"b">>
NameC == <<"c">>
NameBad == <<"x", "-">>
NameNl == <<"a", Newline>>

Item(k, v) == [k |-> k, v |-> v]
DictElem(items) == [dict |-> TRUE, items |-> items]
Col(name) == [raw |-> FALSE, text |-> name]
Expr(text) == [raw |-> TRUE, text |-> text]

\* the sets of driver calls that raise when a call on the manager makes them
FaultSets(among) == {F \in SUBSET among : Cardinality(F) <= MaxFaults}

\* Statement building: every kind of builder call, the driver raising at
\* most in the execute of an UPDATE or a SELECT
Tables == {NameT, NameBadT, NameNlT, <<>>}
WhereColumns == {NameA, NameBad}
SelectInputs == {<<Col(NameA), <<>>>>, <<Expr(<<"COUNT(*)">>), NameC>>,
                 <<Col(NameA), NameBad>>,
                 <<Expr(<<"IFNULL(a, ", Placeholder, ")">>), <<>>>>}
SetInputs == {<<Item(NameA, 1)>>, <<Item(NameBad, 1)>>, <<>>}
SetsInputs ==
    {[kind |-> "list",
      elems |-> <<DictElem(<<Item(NameA, 1), Item(NameB, 2)>>),
                  DictElem(<<Item(NameA, 3), Item(NameB, 4)>>)>>],
     [kind |-> "list",
      elems |-> <<DictElem(<<Item(NameA, 1), Item(NameB, 2)>>),
                  DictElem(<<Item(NameB, 4), Item(NameA, 3)>>)>>]}
GroupByInputs == {[kind |-> "str", text |-> <<"a", ",", " ", "b">>],
                  [kind |-> "list", items |-> <<NameBad>>]}
ExecFaults == {{}, {"execute"}}

Next ==
    \/ \E t \in Tables : from_table(t)
    \/ \E c \in WhereColumns : where(c, 10)
    \/ where_in(NameB, <<20, 30>>)
    \/ where_not_in(NameA, <<>>)
    \/ \E x \in SelectInputs : select(x[1], x[2])
    \/ \E d \in SetInputs : set(d)
    \/ \E d \in SetsInputs : sets(d)
    \/ \E g \in GroupByInputs : group_by_(g)
    \/ order_by_asc(<<Col(NameB)>>)
    \/ order_by_desc(<<Col(NameBad)>>)
    \/ create({})
    \/ \E F \in ExecFaults : update(F)
    \/ delete({})
    \/ count({}, <<<<5>>>>)
    \/ \E F \in ExecFaults : find_records(FALSE, F, <<<<5>>>>)

Spec == Init /\ [][Next]_vars

\* Transactions and the driver: one table, one clause of each kind, and
\* every driver call raising.  A call on the manager stops at a connect or a
\* cursor that raises, fetches only after an execute that returned, and
\* closes the connection only after a cursor close that returned: the sets
\* below are the driver calls that can raise within one call.
OneCall(F) ==
    /\ "connect" \in F => F = {"connect"}
    /\ "cursor" \in F => F = {"cursor"}
    /\ ~({"execute", "fetchall"} \subseteq F)
    /\ ~({"cursor.close", "close"} \subseteq F)
StatementFaults ==
    {F \in FaultSets({"connect", "cursor", "execute", "fetchall", "cursor.close",
                      "close"}) : OneCall(F)}
EndFaults == FaultSets({"commit", "rollback", "close"})
RawInputs == {<<<<"SELECT", " ", "1">>, NoParams>>,
              <<<<"DELETE FROM t WHERE a = ", Placeholder>>, Tuple(<<1>>)>>}

NextTx ==
    \/ from_table(NameT)
    \/ where(NameA, 10)
    \/ set(<<Item(NameA, 1)>>)
    \/ \E F \in StatementFaults : create(F)
    \/ \E F \in StatementFaults : update(F)
    \/ \E F \in StatementFaults : delete(F)
    \/ \E F \in StatementFaults : count(F, <<<<5>>>>)
    \/ count({}, <<>>)
    \/ \E F \in StatementFaults : find_records(FALSE, F, <<<<5>>>>)
    \/ find_records(TRUE, {}, <<>>)
    \/ \E x \in RawInputs, F \in StatementFaults :
          raw_execute(x[1], x[2], FALSE, F, <<<<5>>>>)
    \/ begin_transaction
    \/ \E ok \in BOOLEAN, F \in EndFaults : end_transaction(ok, F)

SpecTx == Init /\ [][NextTx]_vars

\* Payloads: rows built by set() and sets() in every order, with where
\* clauses declared before and after them, then INSERT and UPDATE
RowSetInputs == {<<Item(NameB, 2)>>, <<Item(NameA, 1)>>,
                 <<Item(NameA, 3), Item(NameC, 4)>>}
RowSetsInputs ==
    {[kind |-> "dict", items |-> <<Item(NameB, 6), Item(NameA, 5)>>],
     [kind |-> "list",
      elems |-> <<DictElem(<<Item(NameA, 1), Item(NameB, 2)>>),
                  DictElem(<<Item(NameA, 3), Item(NameB, 4)>>)>>],
     [kind |-> "list",
      elems |-> <<DictElem(<<Item(NameA, 1), Item(NameB, 2)>>),
                  DictElem(<<Item(NameB, 4), Item(NameA, 3)>>)>>],
     [kind |-> "list",
      elems |-> <<DictElem(<<Item(NameA, 1), Item(NameB, 2)>>),
                  DictElem(<<Item(NameA, 3)>>)>>]}

NextRows ==
    \/ from_table(NameT)
    \/ \E d \in RowSetInputs : set(d)
    \/ \E d \in RowSetsInputs : sets(d)
    \/ where(NameA, 10)
    \/ where_in(NameB, <<20, 30>>)
    \/ create({})
    \/ update({})

SpecRows == Init /\ [][NextRows]_vars

\* Where clauses: collections that are empty and not, on columns that are
\* identifiers and not, next to the other kinds of clause, then the
\* statements that render a WHERE
InColumns == {NameA, NameBad}

NextWhere ==
    \/ from_table(NameT)
    \/ \E c \in InColumns : where_in(c, <<>>)
    \/ where_in(NameB, <<20, 30>>)
    \/ \E c \in InColumns : where_not_in(c, <<>>)
    \/ where_not_in(NameB, <<20>>)
    \/ where(NameA, 10)
    \/ where_is_null(NameB)
    \/ set(<<Item(NameA, 1)>>)
    \/ order_by_asc(<<Col(NameB)>>)
    \/ update({})
    \/ delete({})
    \/ count({}, <<<<5>>>>)
    \/ find_records(FALSE, {}, <<<<5>>>>)

SpecWhere == Init /\ [][NextWhere]_vars

\* SELECT and COUNT with every kind of clause, declared in every order
NameS == <<"s">>
OnCondition == <<"t.id = s.t_id">>
CountAll == Expr(<<"COUNT(*)">>)
LimitInputs == {<<3, <<>>>>, <<10, <<5>>>>, <<-1, <<>>>>, <<3, <<-1>>>>}

NextSelect ==
    \/ from_table(NameT)
    \/ where(NameA, 10)
    \/ where_in(NameB, <<20, 30>>)
    \/ group_by_([kind |-> "list", items |-> <<NameA>>])
    \/ order_by_asc(<<Col(NameB)>>)
    \/ inner_join(NameS, OnCondition)
    \/ having_gt(CountAll, 1)
    \/ \E l \in LimitInputs : limit(l[1], l[2])
    \/ count({}, <<<<5>>>>)
    \/ find_records(FALSE, {}, <<<<5>>>>)

SpecSelect == Init /\ [][NextSelect]_vars

\* Joins of every kind, on tables whose names are identifiers and not, and
\* having predicates over raw expressions and names, with and without a
\* group_by term
JoinTables == {NameS, NameBadT, NameNlT}

NextJoin ==
    \/ from_table(NameT)
    \/ where(NameA, 10)
    \/ group_by_([kind |-> "list", items |-> <<NameA>>])
    \/ \E t \in JoinTables : inner_join(t, OnCondition)
    \/ left_join(NameS, OnCondition)
    \/ cross_join(NameS)
    \/ having_gt(CountAll, 1)
    \/ having_gte(Col(NameBad), 1)
    \/ having_lt(CountAll, 7)
    \/ having_lte(Col(NameA), 7)
    \/ find_records(FALSE, {}, <<<<5>>>>)

SpecJoin == Init /\ [][NextJoin]_vars

\* COUNT after select terms, where clauses and group_by terms.  What the
\* driver fetches for it: rows of several columns, or no row at all, which a
\* COUNT(*) gives only when it is grouped and there is no group.
CountFetched == {<<<<7, 8>>, <<9, 1>>>>, <<<<0>>>>, <<>>}

NextCount ==
    \/ from_table(NameT)
    \/ \E sel \in SelectInputs : select(sel[1], sel[2])
    \/ where(NameA, 10)
    \/ where_in(NameB, <<20, 30>>)
    \/ group_by_([kind |-> "list", items |-> <<NameA>>])
    \/ \E f \in CountFetched : (f = <<>> => group_by # <<>>) /\ count({}, f)
    \/ find_records(FALSE, {}, <<<<5>>>>)

SpecCount == Init /\ [][NextCount]_vars

\* sets() with every shape of argument: a dict, an empty list, a list whose
\* first element is no dict, a list whose second element is no dict, and
\* lists of dicts; then INSERT
NumberElem == [dict |-> FALSE, items |-> <<>>]
SetsShapes ==
    {[kind |-> "dict", items |-> <<Item(NameB, 6), Item(NameA, 5)>>],
     [kind |-> "list", elems |-> <<>>],
     [kind |-> "list",
      elems |-> <<NumberElem, DictElem(<<Item(NameA, 1), Item(NameB, 2)>>)>>],
     [kind |-> "list",
      elems |-> <<DictElem(<<Item(NameA, 1), Item(NameB, 2)>>), NumberElem>>],
     [kind |-> "list",
      elems |-> <<DictElem(<<Item(NameA, 1), Item(NameB, 2)>>),
                  DictElem(<<Item(NameA, 3), Item(NameB, 4)>>)>>],
     [kind |-> "list", elems |-> <<DictElem(<<Item(NameA, 7), Item(NameB, 8)>>)>>]}

NextSets ==
    \/ from_table(NameT)
    \/ \E d \in SetsShapes : sets(d)
    \/ set(<<Item(NameA, 1)>>)
    \/ create({})

SpecSets == Init /\ [][NextSets]_vars

\* Identifiers: every text of up to MaxIdentLen characters over a letter, a
\* digit, the underscore, the dot, a character outside the pattern and the
\* newline, quoted on its own, before and after the calls of a SELECT
IdentChars == {"a", "1", Underscore, ".", "-", Newline}
Idents == UNION {[1..k -> IdentChars] : k \in 0..MaxIdentLen}

NextIdent ==
    \/ \E s \in Idents : _quote_identifier(s)
    \/ \E t \in {NameT, NameBadT} : from_table(t)
    \/ find_records(FALSE, {}, <<<<5>>>>)

SpecIdent == Init /\ [][NextIdent]_vars

\* The with statement over transaction(): statements in and out of its body,
\* the driver raising in a statement and in the commit, rollback and close of
\* the exit, and a body that returns, raises an exception of its own, or
\* lets the exception of its last call through
WithFaults == {{}, {"execute"}, {"connect"}}
BodyOutcomes == {Ok, BodyError, result}

NextWith ==
    \/ from_table(NameT)
    \/ set(<<Item(NameA, 1)>>)
    \/ \E F \in WithFaults : create(F)
    \/ count({}, <<<<5>>>>)
    \/ transaction_enter
    \/ \E exc \in BodyOutcomes, F \in EndFaults : transaction_exit(exc, F)
    \/ end_transaction(FALSE, {})

SpecWith == Init /\ [][NextWith]_vars

\* Transactions begun twice and with statements nested, statements between
\* the two ends, and the driver raising in the commit, rollback and close
NextNest ==
    \/ from_table(NameT)
    \/ set(<<Item(NameA, 1)>>)
    \/ create({})
    \/ count({}, <<<<5>>>>)
    \/ begin_transaction
    \/ \E ok \in BOOLEAN, F \in EndFaults : end_transaction(ok, F)
    \/ transaction_enter
    \/ \E exc \in BodyOutcomes, F \in EndFaults : transaction_exit(exc, F)

SpecNest == Init /\ [][NextNest]_vars

\* Fluent calls that return and that raise, in and out of a transaction,
\* before and after a statement was recorded, and transaction boundaries
\* with a statement half built
NextFrame ==
    \/ \E t \in {NameT, NameBadT} : from_table(t)
    \/ where(NameA, 10)
    \/ where_in(NameB, <<>>)
    \/ \E x \in SelectInputs : select(x[1], x[2])
    \/ set(<<Item(NameA, 1)>>)
    \/ \E d \in SetsShapes : sets(d)
    \/ \E g \in GroupByInputs : group_by_(g)
    \/ order_by_asc(<<Col(NameB)>>)
    \/ order_by_desc(<<Col(NameBad)>>)
    \/ create({})
    \/ find_records(FALSE, {}, <<<<5>>>>)
    \/ begin_transaction
    \/ \E ok \in BOOLEAN, F \in EndFaults : end_transaction(ok, F)

SpecFrame == Init /\ [][NextFrame]_vars

-----------------------------------------------------------------------------
(* What the properties below read off a call: the calls that end a builder *)
(* chain, and the text that reached the driver.                            *)

BuilderTerminals == {"create", "update", "delete", "count", "find_records"}
Terminals == BuilderTerminals \cup {"raw_execute"}

KindOf(name) ==
    IF name = "create" THEN "INSERT"
    ELSE IF name = "update" THEN "UPDATE"
    ELSE IF name = "delete" THEN "DELETE"
    ELSE IF name = "count" THEN "COUNT"
    ELSE "SELECT"

\* the driver calls of cs that are calls of name
Events(cs, name) == {i \in 1..Len(cs) : cs[i].call = name}

\* the positions of the piece x in a text, in text order
RECURSIVE PositionsFrom(_, _, _)
PositionsFrom(sql, x, i) ==
    IF i > Len(sql) THEN <<>>
    ELSE (IF sql[i] = x THEN <<i>> ELSE <<>>) \o PositionsFrom(sql, x, i + 1)

Positions(sql, x) == PositionsFrom(sql, x, 1)

\* the quoted names of a text, in text order, q being the positions of its backquotes
QuotedNamesAt(sql, q) ==
    [k \in 1..(Len(q) \div 2) |-> SubSeq(sql, q[2 * k - 1] + 1, q[2 * k] - 1)]

QuotedNames(sql) == QuotedNamesAt(sql, Positions(sql, Backquote))

\* the bare SELECT that from_table(t).find_records() renders from a cleared builder
BareSelect(t) ==
    Rendered(<<"SELECT ", "*", " FROM ", Backquote>> \o t \o <<Backquote>>, <<>>)

\* QueryState as reset() leaves it
Cleared ==
    /\ table = [set |-> FALSE, name |-> <<>>]
    /\ selects = <<>>
    /\ wheres = <<>>
    /\ group_by = <<>>
    /\ order_by = <<>>
    /\ rows = <<>>
    /\ joins = <<>>
    /\ havings = <<>>
    /\ limit_offset = <<>>

-----------------------------------------------------------------------------
(* Properties. *)

\* C1: update() and delete() called while no where clause is pending always
\* fail with a ValueError and make no driver call.
C1_UpdateDeleteNeedWhere ==
    [][(op' \in {"update", "delete"} /\ wheres = <<>>)
          => (result' \in ValueErrors /\ calls' = <<>> /\ conns' = conns)]_vars

\* an update() with a table and a payload pending but no where clause was refused
C1_Witness ==
    /\ op = "update"
    /\ result = ErrUpdateNoWhere
    /\ table.set /\ rows # <<>> /\ wheres = <<>>
    /\ calls = <<>>

\* C2: every validation or identifier error of a builder terminal call is
\* raised before any driver call is made: the call reaches no connect, cursor
\* or execute and leaves the driver's connections as they were.
C2_ValidationBeforeDriver ==
    [][(op' \in BuilderTerminals /\ result' \in ValueErrors)
          => (calls' = <<>> /\ conns' = conns /\ tx_conn' = tx_conn)]_vars

\* a create() whose rows disagree on their columns was refused without a driver call
C2_Witness ==
    /\ op = "create"
    /\ result = ErrMismatch
    /\ calls = <<>>

\* C3 as stated: after any builder terminal call whatever, the state is
\* cleared: from_table(t).find_records() would now render the bare SELECT
\* with no parameter.
C3_ClearedAfterAnyTerminal ==
    op \in BuilderTerminals
        => BuildWith("SELECT", QuoteIdentifier(NameT)) = BareSelect(NameT)

\* C3: after a builder terminal call that rendered its statement (it raised
\* no validation error), from_table(t).find_records() renders the bare SELECT
\* with no WHERE, GROUP BY or ORDER BY and no parameter.
C3_ClearedAfterRender ==
    (op \in BuilderTerminals /\ result \notin ValueErrors)
        => BuildWith("SELECT", QuoteIdentifier(NameT)) = BareSelect(NameT)

\* a delete() with a where clause pending has run, and nothing is carried over
C3_Witness ==
    /\ op = "delete"
    /\ result = Ok
    /\ last_params = Tuple(<<10>>)
    /\ BuildWith("SELECT", QuoteIdentifier(NameT)) = BareSelect(NameT)

\* C4: after a builder terminal call rendered its statement, QueryState is
\* reset with the table included, so a builder terminal call that follows
\* with no from_table in between raises the missing-table error before any
\* driver call.
C4_ResetIncludesTable ==
    [][(op \in BuilderTerminals /\ result \notin ValueErrors)
          => /\ Cleared
             /\ op' \in BuilderTerminals
                   => (result' = ErrNoTable /\ calls' = <<>> /\ conns' = conns)]_vars

\* a terminal call found the table unset after an earlier statement had been rendered
C4_Witness ==
    /\ op \in BuilderTerminals
    /\ result = ErrNoTable
    /\ last_query # <<>>
    /\ Cleared
    /\ calls = <<>>

\* C5: no statement of the builder reaches cursor.execute with a table name,
\* column name or alias in it that is not of the grammar
\* [A-Za-z_][A-Za-z0-9_]* (each dot-separated segment is quoted by itself).
C5_OnlyIdentifiersExecuted ==
    op \in BuilderTerminals
        => \A i \in Events(calls, "execute") :
              \A k \in 1..Len(QuotedNames(calls[i].sql)) :
                  IsWord(QuotedNames(calls[i].sql)[k])

\* the (column, value) pairs the where clauses bind, in declaration order
WhereBindings(ws) ==
    Flatten([i \in 1..Len(ws) |->
                [j \in 1..Len(ws[i].value.items) |->
                    [col |-> ws[i].column, val |-> ws[i].value.items[j]]]])

\* the (column, value) pairs of a row payload, in insertion order
RowBindings(row) == [i \in 1..Len(row) |-> [col |-> row[i].k, val |-> row[i].v]]

\* the (column, value) pairs a statement of the kind is to bind, in text
\* order: the rows of an INSERT one after the other, the SET payload of an
\* UPDATE before its WHERE values, the WHERE values otherwise
ExpectedBindings(kind) ==
    IF kind = "INSERT" THEN Flatten([i \in 1..Len(rows) |-> RowBindings(rows[i])])
    ELSE IF kind = "UPDATE" THEN RowBindings(rows[1]) \o WhereBindings(wheres)
    ELSE WhereBindings(wheres)

\* the last segment of a dotted name
LastPart(ident) == Split(ident, ".")[Len(Split(ident, "."))]

\* the last quoted name of a text
LastQuoted(names) == names[Len(names)]

\* the column the i-th placeholder of a statement stands for, ps being the
\* positions of the placeholders: in an INSERT the column list comes first
\* and every VALUES group follows its order; elsewhere the placeholder
\* follows the quoted column it is compared with or assigned to
InsertColumns(sql) == QuotedNames(SubSeq(sql, Positions(sql, "(")[1], Len(sql)))

PlaceholderColumn(kind, sql, ps, i) ==
    IF kind = "INSERT"
    THEN InsertColumns(sql)[((i - 1) % Len(InsertColumns(sql))) + 1]
    ELSE LastQuoted(QuotedNames(SubSeq(sql, 1, ps[i])))

\* placeholders and parameters of an executed statement against the pairs it
\* was to bind
Paired(kind, sql, params, expected) ==
    /\ Len(Positions(sql, Placeholder)) = Len(expected)
    /\ Len(params.items) = Len(expected)
    /\ params.none <=> expected = <<>>
    /\ \A i \in 1..Len(expected) :
          /\ params.items[i] = expected[i].val
          /\ PlaceholderColumn(kind, sql, Positions(sql, Placeholder), i)
                = LastPart(expected[i].col)

\* the raw expressions that go into a statement of the kind as they are
RawTexts(kind) ==
    IF kind \notin {"SELECT", "COUNT"} THEN {}
    ELSE (IF kind = "SELECT"
          THEN {selects[i].sql : i \in {j \in 1..Len(selects) : selects[j].raw}}
          ELSE {})
         \cup {group_by[i].text : i \in {j \in 1..Len(group_by) : group_by[j].raw}}
         \cup {order_by[i].text : i \in {j \in 1..Len(order_by) : order_by[j].raw}}

NoRawPlaceholder(kind) == \A x \in RawTexts(kind) : Positions(x, Placeholder) = <<>>

\* C6 as stated: in every statement the builder hands to cursor.execute,
\* whatever fluent calls built it, the placeholders and the parameters are
\* paired one to one: as many %s in the text as parameters, and the i-th %s
\* in text order stands at the column whose value is the i-th parameter.
C6_PlaceholdersPaired ==
    [][\A n \in BuilderTerminals :
          op' = n =>
             \A i \in Events(calls', "execute") :
                 Paired(KindOf(n), calls'[i].sql, calls'[i].params,
                        ExpectedBindings(KindOf(n)))]_vars

\* C6: in every statement the builder hands to cursor.execute, INSERT,
\* UPDATE, DELETE, SELECT or COUNT, none of whose raw expressions contains
\* %s itself, the placeholders and the parameters are paired one to one: as
\* many %s in the text as parameters, and the i-th %s in text order stands
\* at the column whose value is the i-th parameter.
C6_RenderedPlaceholdersPaired ==
    [][\A n \in BuilderTerminals :
          (op' = n /\ NoRawPlaceholder(KindOf(n))) =>
             \A i \in Events(calls', "execute") :
                 Paired(KindOf(n), calls'[i].sql, calls'[i].params,
                        ExpectedBindings(KindOf(n)))]_vars

\* an UPDATE bound its SET value and then the two values of its IN list
C6_Witness ==
    /\ op = "update"
    /\ result = Ok
    /\ \E i \in Events(calls, "execute") :
          /\ calls[i].params = Tuple(<<1, 20, 30>>)
          /\ Len(Positions(calls[i].sql, Placeholder)) = 3

\* C7 as stated: while a transaction is open every terminal call runs on the
\* one cached connection; the first statement creates it with autocommit
\* off, connect is invoked at most once between begin_transaction and the
\* matching end_transaction (a statement that follows, in the transaction,
\* one that invoked connect does not invoke it), and no statement closes
\* the connection.
C7_OneConnectPerTransaction ==
    [][(in_tx /\ op' \in Terminals /\ calls' # <<>>)
          => /\ \A i \in 1..Len(calls') : calls'[i].conn = tx_conn'
             /\ Events(calls', "close") = {}
             /\ IF tx_conn # 0
                THEN tx_conn' = tx_conn /\ Events(calls', "connect") = {}
                ELSE /\ Events(calls', "connect") = {1}
                     /\ ~calls'[1].autocommit
             /\ (op \in Terminals /\ Events(calls, "connect") # {})
                   => Events(calls', "connect") = {}]_vars

\* C7: while a transaction is open every terminal call (raw_execute
\* included) runs on the cached connection and none closes it; a statement
\* that finds none cached invokes connect once with autocommit off, and the
\* connection is cached if connect returns, while a connect that raises
\* caches nothing, so that the next statement connects again; once a
\* connection is cached connect is not invoked before end_transaction.
C7_CachedConnectionReused ==
    [][(in_tx /\ op' \in Terminals /\ calls' # <<>>)
          => /\ Events(calls', "close") = {}
             /\ IF tx_conn # 0
                THEN /\ tx_conn' = tx_conn
                     /\ Events(calls', "connect") = {}
                     /\ \A i \in 1..Len(calls') : calls'[i].conn = tx_conn
                ELSE /\ Events(calls', "connect") = {1}
                     /\ ~calls'[1].autocommit
                     /\ IF calls'[1].raised
                        THEN tx_conn' = 0 /\ Len(calls') = 1
                        ELSE /\ tx_conn' # 0
                             /\ \A i \in 1..Len(calls') : calls'[i].conn = tx_conn']_vars

\* a statement of an open transaction ran on the connection cached by an earlier one
C7_Witness ==
    /\ in_tx
    /\ tx_conn # 0
    /\ op \in Terminals
    /\ Events(calls, "connect") = {}
    /\ \E i \in Events(calls, "execute") : calls[i].conn = tx_conn
    /\ conns[tx_conn].open

\* C8: outside a transaction every terminal call opens its own autocommit
\* connection, and on every way out (normal return, execute or fetch
\* raising, the cursor not acquired, the cursor close raising) the cursor is
\* released and the connection is closed before the call returns.
C8_ConnectionAlwaysClosed ==
    [][(~in_tx /\ op' \in Terminals /\ calls' # <<>>)
          => /\ Events(calls', "connect") = {1}
             /\ calls'[1].autocommit
             /\ (~calls'[1].raised /\ \A i \in Events(calls', "close") : ~calls'[i].raised)
                   => /\ Cardinality(Events(calls', "close")) = 1
                      /\ conns'[calls'[1].conn] = FreeConn]_vars

\* C9: end_transaction(success) always returns the manager to idle, also
\* when commit, rollback or close raises; with a connection cached it calls
\* exactly one of commit (success) or rollback (no success) and then closes
\* the connection exactly once; with none cached it makes no driver call.
C9_EndAlwaysIdle ==
    [][\A success \in BOOLEAN :
          op' = EndOp(success) =>
             /\ ~in_tx'
             /\ tx_conn' = 0
             /\ IF tx_conn = 0 THEN calls' = <<>>
                ELSE /\ Len(calls') = 2
                     /\ calls'[1].call = (IF success THEN "commit" ELSE "rollback")
                     /\ calls'[1].conn = tx_conn
                     /\ calls'[2].call = "close"
                     /\ calls'[2].conn = tx_conn]_vars

\* a commit raised, and the connection was closed and the manager left idle all the same
C9_Witness ==
    /\ op = EndOp(TRUE)
    /\ result = DriverError
    /\ Len(calls) = 2
    /\ calls[1].call = "commit" /\ calls[1].raised
    /\ calls[2].call = "close" /\ ~calls[2].raised
    /\ ~in_tx
    /\ tx_conn = 0

\* C10: begin_transaction is unconditional and idempotent: it can always be
\* called, it marks the transaction open, makes no driver call and acquires
\* no connection, keeps a connection that is cached (it never resets it),
\* and a second call right after it changes nothing.
C10_BeginIdempotent ==
    [][/\ ENABLED begin_transaction
       /\ op' = "begin_transaction"
             => /\ in_tx'
                /\ tx_conn' = tx_conn
                /\ calls' = <<>>
                /\ conns' = conns
                /\ result' = Ok
                /\ op = "begin_transaction" => UNCHANGED vars]_vars

\* begin_transaction was called while the transaction had a connection cached
C10_Witness ==
    /\ op = "begin_transaction"
    /\ in_tx
    /\ tx_conn # 0
    /\ conns[tx_conn].open

\* C11: in every reachable state the manager holds at most one cached
\* transaction connection and holds it only while a transaction is open: a
\* cached connection implies an open transaction (so an idle manager has
\* none), and the one cached is a connection the driver opened with
\* autocommit off and the manager has not closed.
C11_CachedOnlyInTransaction ==
    /\ tx_conn \in 0..MaxConns
    /\ tx_conn # 0 => in_tx
    /\ ~in_tx => tx_conn = 0
    /\ tx_conn # 0 => (conns[tx_conn].open /\ ~conns[tx_conn].autocommit)

\* a transaction that had a connection cached was rolled back, and the manager is idle
C11_Witness ==
    /\ op = EndOp(FALSE)
    /\ Len(calls) = 2
    /\ calls[1].call = "rollback"
    /\ ~in_tx
    /\ tx_conn = 0

\* the driver calls of cs that raised
Raisers(cs) == {i \in 1..Len(cs) : cs[i].raised}

\* C12: a statement of an open transaction that fails with a driver error
\* (cursor, execute, fetch or cursor close raising) propagates the error and
\* leaves the transaction open with its connection cached and not closed;
\* an end_transaction(False) that follows rolls back and closes that same
\* connection.
C12_ErrorKeepsTransaction ==
    [][/\ (in_tx /\ op' \in Terminals /\ result' = DriverError
              /\ Events(calls', "connect") \cap Raisers(calls') = {})
          => /\ Raisers(calls') # {}
             /\ in_tx'
             /\ tx_conn' # 0
             /\ tx_conn # 0 => tx_conn' = tx_conn
             /\ conns'[tx_conn'].open
             /\ Events(calls', "close") = {}
       /\ (in_tx /\ tx_conn # 0 /\ op \in Terminals /\ result = DriverError
              /\ op' = EndOp(FALSE))
          => /\ Len(calls') = 2
             /\ calls'[1].call = "rollback" /\ calls'[1].conn = tx_conn
             /\ calls'[2].call = "close" /\ calls'[2].conn = tx_conn
             /\ Raisers(calls') = {} => ~conns'[tx_conn].open]_vars

\* the execute of a statement of an open transaction raised, and the
\* connection is still cached and open
C12_Witness ==
    /\ in_tx
    /\ op \in Terminals
    /\ result = DriverError
    /\ \E i \in Events(calls, "execute") : calls[i].raised /\ calls[i].conn = tx_conn
    /\ tx_conn # 0
    /\ conns[tx_conn].open

\* a call executed a write: execute returned and nothing was fetched
WriteExecuted(cs) ==
    /\ \E i \in Events(cs, "execute") : ~cs[i].raised
    /\ Events(cs, "fetchall") = {}

\* C13: writes executed between begin_transaction and end_transaction(success)
\* take effect iff success is true, and writes outside a transaction take
\* effect at once: a write of an open transaction runs on the cached
\* connection, whose autocommit is off, and stays pending there, no statement
\* committing or rolling back; end_transaction(success), when its driver
\* calls return, commits the pending writes if success and rolls them back
\* if not; a write outside a transaction runs on a connection opened with
\* autocommit on and leaves nothing pending.
C13_WritesEffectiveIffCommitted ==
    [][/\ op' \in Terminals
             => /\ Events(calls', "commit") \cup Events(calls', "rollback") = {}
                /\ WriteExecuted(calls')
                      => IF in_tx
                         THEN /\ tx_conn' # 0
                              /\ \A i \in Events(calls', "execute") :
                                     calls'[i].conn = tx_conn'
                              /\ ~conns'[tx_conn'].autocommit
                              /\ conns'[tx_conn'].pending
                         ELSE /\ calls'[1].call = "connect" /\ calls'[1].autocommit
                              /\ \A i \in Events(calls', "execute") :
                                     calls'[i].conn = calls'[1].conn
                              /\ ~conns'[calls'[1].conn].pending
       /\ \A success \in BOOLEAN :
             (op' = EndOp(success) /\ tx_conn # 0 /\ conns[tx_conn].pending
                 /\ Raisers(calls') = {})
                => /\ success <=> Events(calls', "commit") # {}
                   /\ ~success <=> Events(calls', "rollback") # {}
                   /\ \A i \in 1..Len(calls') : calls'[i].conn = tx_conn
                   /\ ~conns'[tx_conn].pending]_vars

\* an INSERT of an open transaction has been executed and is pending on the
\* cached connection
C13_Witness ==
    /\ in_tx
    /\ op = "create"
    /\ result = Ok
    /\ tx_conn # 0
    /\ conns[tx_conn].pending

\* C14: every builder terminal call that renders a statement overwrites the
\* last-statement record, whether or not the driver then succeeds: after the
\* call get_last_query() and get_last_parameters() are the text and the
\* parameter tuple rendered for that call, which are what cursor.execute
\* was handed, the parameters being None when the statement has none.
C14_LastStatementRecorded ==
    [][\A n \in BuilderTerminals :
          (op' = n /\ result' \notin ValueErrors)
             => /\ last_query' = BuildQuery(KindOf(n)).sql
                /\ last_params' = ParamsOf(BuildQuery(KindOf(n)).params)
                /\ last_params'.none <=> BuildQuery(KindOf(n)).params = <<>>
                /\ \A i \in Events(calls', "execute") :
                      /\ calls'[i].sql = last_query'
                      /\ calls'[i].params = last_params']_vars

\* C15: raw_execute follows the connection policy and the last-statement
\* recording of the builder terminals: outside a transaction it runs on its
\* own autocommit connection and closes it, inside one it runs on the cached
\* connection and leaves it open (both stated for calls whose cursor is
\* acquired and closed without error), and after a call that reached
\* cursor.execute, also one whose execute raised, the last-statement
\* record is the text and the parameters it was given.
C15_RawExecuteSamePolicy ==
    [][op' = "raw_execute"
          => /\ Raisers(calls') \subseteq
                    (Events(calls', "execute") \cup Events(calls', "fetchall"))
                => IF in_tx
                   THEN /\ tx_conn' # 0
                        /\ \A i \in 1..Len(calls') : calls'[i].conn = tx_conn'
                        /\ Events(calls', "close") = {}
                        /\ conns'[tx_conn'].open
                   ELSE /\ calls'[1].call = "connect" /\ calls'[1].autocommit
                        /\ \A i \in 1..Len(calls') : calls'[i].conn = calls'[1].conn
                        /\ calls'[Len(calls')].call = "close"
                        /\ conns'[calls'[1].conn] = FreeConn
             /\ \A i \in Events(calls', "execute") :
                   /\ last_query' = calls'[i].sql
                   /\ last_params' = calls'[i].params]_vars

\* C16: raw_execute is a terminal call that resets builder state: after
\* raw_execute returns, QueryState is empty (no table, select terms, where
\* clauses, group-by, order-by or payload rows of earlier fluent calls), so
\* that from_table(t).find_records() would render the bare SELECT.
C16_RawExecuteResets ==
    (op = "raw_execute" /\ result = Ok)
        => /\ Cleared
           /\ BuildWith("SELECT", QuoteIdentifier(NameT)) = BareSelect(NameT)

\* s is an initial part of t
IsPrefix(s, t) == Len(s) <= Len(t) /\ SubSeq(t, 1, Len(s)) = s

\* the placeholders of a text that lie between the positions lo and hi
PlaceholdersBetween(sql, lo, hi) ==
    {i \in lo..hi : sql[i] = Placeholder}

\* the text of an INSERT against the rows it was rendered from: the column
\* list is the first row's keys in their order, and after it there is one
\* parenthesised group of Len(cols) placeholders for each row
InsertShape(sql, rs, cols, opens, closes) ==
    /\ InsertColumns(sql) = cols
    /\ Len(opens) = 1 + Len(rs)
    /\ Len(closes) = Len(rs)
    /\ Len(Positions(sql, Placeholder)) = Len(rs) * Len(cols)
    /\ \A g \in 1..Len(rs) :
          Cardinality(PlaceholdersBetween(sql, opens[g + 1], closes[g])) = Len(cols)

\* the values of the rows in column order, row after row
RowMajor(rs, n) ==
    [k \in 1..(Len(rs) * n) |-> rs[((k - 1) \div n) + 1][((k - 1) % n) + 1].v]

\* C17: for create() with payload rows that all share one column list, the
\* INSERT names the columns in the first row's key declaration order, has
\* one VALUES group per row with as many placeholders as columns, and its
\* parameters are the rows' values in column order, row after row; and a
\* set() on a row already there keeps the keys declared so far in their
\* places and appends the new ones, so that a row built by successive set()
\* calls has its parameters in the order its keys were declared.
C17_InsertColumnOrder ==
    [][/\ (op' = "set" /\ rows # <<>>)
             => /\ Len(rows') = Len(rows)
                /\ IsPrefix(Keys(rows[1]), Keys(rows'[1]))
       /\ op' = "create"
             => /\ (/\ rows # <<>>
                    /\ \A i \in 1..Len(rows) : Keys(rows[i]) = Keys(rows[1]))
                      => result' # ErrMismatch
                /\ \A i \in Events(calls', "execute") :
                      /\ InsertShape(calls'[i].sql, rows, Keys(rows[1]),
                                     Positions(calls'[i].sql, "("),
                                     Positions(calls'[i].sql, ")"))
                      /\ calls'[i].params = Tuple(RowMajor(rows, Len(rows[1])))]_vars

\* an INSERT of two rows of two columns was executed
C17_Witness ==
    /\ op = "create"
    /\ result = Ok
    /\ \E i \in Events(calls, "execute") :
          /\ calls[i].params = Tuple(<<1, 2, 3, 4>>)
          /\ InsertColumns(calls[i].sql) = <<NameA, NameB>>

\* the set of the columns of a row
KeySet(row) == {row[i].k : i \in 1..Len(row)}

\* C18: create() with a pending row whose columns differ from the first
\* row's, in the key set or only in the key order, fails with a ValueError
\* and calls the driver not at all; with a table and a first row that pass
\* the earlier checks the error is the one about the columns.
C18_MismatchRefused ==
    [][(/\ op' = "create"
        /\ rows # <<>>
        /\ \E i \in 1..Len(rows) : Keys(rows[i]) # Keys(rows[1]))
          => /\ result' \in ValueErrors
             /\ calls' = <<>>
             /\ (~NoTable /\ QuoteIdentifier(table.name).ok /\ rows[1] # <<>>)
                   => result' = ErrMismatch]_vars

\* create() refused two rows that have the same columns in another order
C18_Witness ==
    /\ op = "create"
    /\ result = ErrMismatch
    /\ calls = <<>>
    /\ Len(rows) = 2
    /\ KeySet(rows[2]) = KeySet(rows[1])
    /\ Keys(rows[2]) # Keys(rows[1])

\* the values of a list of (column, value) pairs
BoundValues(bs) == [i \in 1..Len(bs) |-> bs[i].val]

\* C19: update() is executed with the SET values in payload key order
\* followed by the WHERE values in the order the where clauses were declared,
\* however set() and where() were interleaved: set() leaves the where
\* clauses as they are, a where call leaves the payload as it is and adds
\* its clause after the ones already declared.
C19_UpdateParamOrder ==
    [][/\ op' = "set" => wheres' = wheres
       /\ op' \in {"where", "where_in"}
             => /\ rows' = rows
                /\ Len(wheres') = Len(wheres) + 1
                /\ IsPrefix(wheres, wheres')
       /\ op' = "update"
             => \A i \in Events(calls', "execute") :
                   calls'[i].params =
                       Tuple(BoundValues(RowBindings(rows[1]))
                             \o BoundValues(WhereBindings(wheres)))]_vars

\* an UPDATE that sets a to 1 where a = 10 was executed with (1, 10)
C19_Witness ==
    /\ op = "update"
    /\ result = Ok
    /\ \E i \in Events(calls, "execute") :
          /\ calls[i].params = Tuple(<<1, 10>>)
          /\ Positions(calls[i].sql, " WHERE ") # <<>>

\* a text from its piece x on, x left out; empty when x is not in it
After(sql, x) ==
    IF Positions(sql, x) = <<>> THEN <<>>
    ELSE SubSeq(sql, Positions(sql, x)[1] + 1, Len(sql))

\* a text up to the first piece of xs in it
Before(sql, xs) ==
    IF \A i \in 1..Len(sql) : sql[i] \notin xs THEN sql
    ELSE SubSeq(sql, 1, (CHOOSE i \in 1..Len(sql) :
                            sql[i] \in xs /\ \A j \in 1..(i - 1) : sql[j] \notin xs) - 1)

\* the predicates of the WHERE of a text, in text order
WherePredicates(sql) ==
    Split(Before(After(sql, " WHERE "),
                 {" GROUP BY ", " HAVING ", " ORDER BY ", " LIMIT "}), " AND ")

\* an IN / NOT IN clause over an empty collection
EmptyIn(clause) == clause.op \in {"IN", "NOT IN"} /\ clause.value.items = <<>>

\* C20: where_in(col, []) and where_not_in(col, []) do not raise; in an
\* executed statement the clause stands as the predicate 1=0, respectively
\* 1=1, at its place among the predicates and adds no parameter, so a
\* statement whose only clauses are of this kind is executed with no
\* parameters (None) unless it is an UPDATE, which has its SET values.
C20_EmptyInConstant ==
    [][/\ op' \in {"where_in", "where_not_in"}
             => /\ result' = Ok
                /\ calls' = <<>>
       /\ op' \in {"update", "delete", "count", "find_records"}
             => \A i \in Events(calls', "execute") :
                   /\ \A k \in 1..Len(wheres) :
                         EmptyIn(wheres[k])
                            => WherePredicates(calls'[i].sql)[k]
                                  = <<IF wheres[k].op = "IN" THEN "1=0" ELSE "1=1">>
                   /\ Len(calls'[i].params.items)
                         = Len(WhereBindings(wheres))
                           + (IF op' = "update" THEN Len(rows[1]) ELSE 0)
                   /\ (/\ wheres # <<>>
                       /\ \A k \in 1..Len(wheres) : EmptyIn(wheres[k])
                       /\ op' # "update")
                         => calls'[i].params = NoParams]_vars

\* a SELECT whose only predicate is 1=0 was executed with no parameters
C20_Witness ==
    /\ op = "find_records"
    /\ result = Ok
    /\ \E i \in Events(calls, "execute") :
          /\ WherePredicates(calls[i].sql) = <<<<"1=0">>>>
          /\ calls[i].params = NoParams

\* the words that open the clauses of a SELECT
JoinWords == {JoinWord(k) : k \in {"INNER", "LEFT", "CROSS"}}
ClauseWords ==
    {"SELECT ", " FROM ", " WHERE ", " GROUP BY ", " HAVING ", " ORDER BY ", " LIMIT "}
       \cup JoinWords
IsClauseWord(x) == x \in ClauseWords

\* the clause words of a text, in text order
Marks(sql) == SelectSeq(sql, IsClauseWord)

\* x when the condition holds
When(cond, x) == IF cond THEN <<x>> ELSE <<>>

\* the clause words of a SELECT over the pending state, in the fixed order
ExpectedMarks ==
    <<"SELECT ", " FROM ">>
       \o [i \in 1..Len(joins) |-> JoinWord(joins[i].kind)]
       \o When(wheres # <<>>, " WHERE ")
       \o When(group_by # <<>>, " GROUP BY ")
       \o When(havings # <<>>, " HAVING ")
       \o When(order_by # <<>>, " ORDER BY ")
       \o When(limit_offset # <<>>, " LIMIT ")

\* the values of the having predicates, in declaration order
HavingValues(hs) == [i \in 1..Len(hs) |-> hs[i].value]

Returned(cs, name) == {i \in Events(cs, name) : ~cs[i].raised}

\* the text of a COUNT over the pending state: the projection is COUNT(*)
\* whatever was selected, and every pending where clause has its predicate
CountText(sql) ==
    /\ SubSeq(sql, 1, 3) = <<"SELECT ", "COUNT(*)", " FROM ">>
    /\ Positions(sql, "COUNT(*)") = <<2>>
    /\ wheres # <<>>
          => /\ Len(WherePredicates(sql)) = Len(wheres)
             /\ \A k \in 1..Len(wheres) :
                   QuotedNames(WherePredicates(sql)[k]) = <<wheres[k].column>>
    /\ wheres = <<>> => Positions(sql, " WHERE ") = <<>>

\* C22: count() executes SELECT COUNT(*) FROM the table, whatever select()
\* terms were added before it, with the pending where clauses, and when the
\* driver calls return it returns the first column of the first fetched row.
C22_CountReturnsScalar ==
    [][op' = "count"
          => /\ \A i \in Events(calls', "execute") : CountText(calls'[i].sql)
             /\ (Returned(calls', "fetchall") # {} /\ Raisers(calls') = {})
                   => \A j \in Returned(calls', "fetchall") :
                         /\ result' = Ok
                         /\ calls'[j].rows # <<>>
                         /\ ret' = <<calls'[j].rows[1][1]>>]_vars

\* C23: a SELECT or COUNT built with a having predicate and no group_by
\* term fails with a ValueError and makes no driver call, so it never
\* reaches cursor.execute; with a group_by term the HAVING is rendered after
\* the GROUP BY and its values are bound after the WHERE values.
C23_HavingNeedsGroupBy ==
    [][op' \in {"find_records", "count"}
          => /\ (havings # <<>> /\ group_by = <<>>)
                   => /\ result' \in ValueErrors
                      /\ calls' = <<>>
             /\ \A i \in Events(calls', "execute") :
                   havings # <<>>
                      => /\ Len(Positions(calls'[i].sql, " GROUP BY ")) = 1
                         /\ Len(Positions(calls'[i].sql, " HAVING ")) = 1
                         /\ Positions(calls'[i].sql, " GROUP BY ")[1]
                               < Positions(calls'[i].sql, " HAVING ")[1]
                         /\ Len(Positions(After(calls'[i].sql, " HAVING "), Placeholder))
                               = Len(havings) + Len(limit_offset)
                         /\ calls'[i].params
                               = Tuple(BoundValues(WhereBindings(wheres))
                                       \o HavingValues(havings)
                                       \o limit_offset)]_vars

\* a SELECT with WHERE, GROUP BY and HAVING was executed with the WHERE
\* value before the HAVING value
C23_Witness ==
    /\ op = "find_records"
    /\ result = Ok
    /\ \E i \in Events(calls, "execute") :
          /\ Marks(calls[i].sql) = <<"SELECT ", " FROM ", " WHERE ", " GROUP BY ", " HAVING ">>
          /\ calls[i].params = Tuple(<<10, 1>>)

\* the last n pieces of a text
Last(sql, n) == SubSeq(sql, Len(sql) - n + 1, Len(sql))

\* the end of a SELECT whose limit, and offset when there is one, are lo
EndsWithLimit(sql, lo) ==
    IF Len(lo) = 1
    THEN /\ Last(sql, 2) = <<" LIMIT ", Placeholder>>
         /\ Positions(sql, " OFFSET ") = <<>>
    ELSE Last(sql, 4) = <<" LIMIT ", Placeholder, " OFFSET ", Placeholder>>

\* C24: limit() makes no driver call and either raises the ValueError about
\* negative values, leaving what was set, or sets a limit, with or without
\* an offset, none of them negative; an executed SELECT or COUNT with a limit
\* set ends with LIMIT %s, or LIMIT %s OFFSET %s when an offset was given,
\* and binds the limit and the offset as its last parameters, after the
\* WHERE (and HAVING) values; with none set it has no LIMIT.
C24_LimitValidatedAndLast ==
    [][/\ op' = "limit"
             => /\ calls' = <<>>
                /\ result' \in {Ok, ErrNegativeLimit}
                /\ result' = ErrNegativeLimit => limit_offset' = limit_offset
                /\ result' = Ok
                      => /\ Len(limit_offset') \in {1, 2}
                         /\ \A k \in 1..Len(limit_offset') : limit_offset'[k] >= 0
       /\ op' \in {"find_records", "count"}
             => \A i \in Events(calls', "execute") :
                   /\ limit_offset = <<>> => Positions(calls'[i].sql, " LIMIT ") = <<>>
                   /\ limit_offset # <<>>
                         => /\ EndsWithLimit(calls'[i].sql, limit_offset)
                            /\ Len(Positions(calls'[i].sql, " LIMIT ")) = 1
                            /\ calls'[i].params
                                  = Tuple(BoundValues(WhereBindings(wheres))
                                          \o HavingValues(havings)
                                          \o limit_offset)]_vars

\* a SELECT with a where clause, a limit and an offset was executed
C24_Witness ==
    /\ op = "find_records"
    /\ result = Ok
    /\ \E i \in Events(calls, "execute") :
          /\ Last(calls[i].sql, 4) = <<" LIMIT ", Placeholder, " OFFSET ", Placeholder>>
          /\ calls[i].params = Tuple(<<10, 10, 5>>)

\* the identifier grammar: every dot-separated segment is a word
\* [A-Za-z_][A-Za-z0-9_]*
InGrammar(name) ==
    \A k \in 1..Len(Split(name, ".")) : IsWord(Split(name, ".")[k])

\* a name with each of its segments in backquotes
QuotedText(name) ==
    Join([k \in 1..Len(Split(name, ".")) |->
             <<Backquote>> \o Split(name, ".")[k] \o <<Backquote>>], <<".">>)

\* the text of a join: INNER and LEFT with ON and the condition as it was
\* given, CROSS without
ExpectedJoin(j) ==
    <<JoinWord(j.kind)>> \o QuotedText(j.table)
       \o (IF j.kind = "CROSS" THEN <<>> ELSE <<" ON ">> \o j.on)

\* what follows FROM in a SELECT over the pending table and joins
ExpectedFrom ==
    QuotedText(table.name) \o Flatten([k \in 1..Len(joins) |-> ExpectedJoin(joins[k])])

\* C25: an executed SELECT or COUNT has the joins directly after FROM table,
\* in declaration order, INNER and LEFT with ON and the raw condition, CROSS
\* with no ON, and after them the next clause or the end of the statement;
\* when a joined table's name is outside the identifier grammar the terminal
\* call raises a ValueError, the identifier error when the table of the
\* statement is set and is an identifier, and makes no driver call.
C25_JoinsAfterFrom ==
    [][op' \in {"find_records", "count"}
          => /\ (\E k \in 1..Len(joins) : ~InGrammar(joins[k].table))
                   => /\ result' \in ValueErrors
                      /\ (~NoTable /\ InGrammar(table.name)) => result' = ErrIdent
                      /\ calls' = <<>>
             /\ \A i \in Events(calls', "execute") :
                   /\ IsPrefix(ExpectedFrom, After(calls'[i].sql, " FROM "))
                   /\ Len(After(calls'[i].sql, " FROM ")) > Len(ExpectedFrom)
                         => After(calls'[i].sql, " FROM ")[Len(ExpectedFrom) + 1]
                               \in ClauseWords \ JoinWords
                   /\ Len(Positions(calls'[i].sql, " ON "))
                         = Cardinality({k \in 1..Len(joins) : joins[k].kind # "CROSS"})]_vars


\* a list given to sets() with an element that is no mapping
SomeNoMapping(data) == \E i \in 1..Len(data.elems) : ~data.elems[i].dict

\* the rows of a list of mappings, in the order of the list
RowsOf(data) == [i \in 1..Len(data.elems) |-> Dict(data.elems[i].items)]

\* C26: sets(data) raises a ValueError and leaves the rows as they were when
\* data is an empty list or a list with an element, the first or a later
\* one, that is no mapping; given a mapping it appends one row; given a
\* non-empty list of mappings it appends one row per mapping, in order.
C26_SetsValidatesEveryElement ==
    [][\A d \in SetsShapes :
          sets(d) =>
             IF d.kind = "dict"
             THEN result' = Ok /\ rows' = Append(rows, Dict(d.items))
             ELSE IF d.elems = <<>> \/ SomeNoMapping(d)
             THEN result' \in ValueErrors /\ rows' = rows
             ELSE result' = Ok /\ rows' = rows \o RowsOf(d)]_vars

\* C27: _quote_identifier(s) returns exactly when every dot-separated segment
\* of s is a word [A-Za-z_][A-Za-z0-9_]*, a segment that ends in a newline
\* being none; it then returns the segments in backquotes rejoined with
\* dots, and otherwise raises the identifier error; in both cases it leaves
\* the manager as it was and makes no driver call.
C27_QuoteIdentifierGrammar ==
    [][\A s \in Idents :
          _quote_identifier(s) =>
             /\ (result' = Ok) <=> InGrammar(s)
             /\ result' = Ok => ret' = QuotedText(s)
             /\ result' # Ok => result' = ErrIdent /\ ret' = <<>>
             /\ calls' = <<>>
             /\ UNCHANGED <<state_vars, tx_vars, last_vars, conns>>]_vars

\* the driver calls of cs that raised
Raising(cs) == {i \in 1..Len(cs) : cs[i].raised}

\* C28: the with statement over transaction() begins a transaction on entry
\* and ends it on every exit.  When the body returned, the exit commits the
\* cached connection; when the body raised, it rolls the connection back and
\* the with statement raises: the exception of the body, unless the rollback
\* or the close raised one of its own.  Either way the cached connection, if
\* any, gets its close call, after which it is closed, and the manager is
\* idle: no transaction open, no connection cached.
C28_TransactionEndsOnEveryExit ==
    [][/\ op' = "transaction.__enter__" => in_tx' /\ transaction_at' = transaction_at + 1
       /\ \A exc \in BodyOutcomes, F \in EndFaults :
             transaction_exit(exc, F) =>
                /\ ~in_tx'
                /\ tx_conn' = 0
                /\ IF tx_conn = 0 THEN calls' = <<>>
                   ELSE /\ Len(calls') = 2
                        /\ calls'[1].call = (IF exc = Ok THEN "commit" ELSE "rollback")
                        /\ calls'[1].conn = tx_conn
                        /\ calls'[2].call = "close"
                        /\ calls'[2].conn = tx_conn
                        /\ ~calls'[2].raised => ~conns'[tx_conn].open
                /\ exc # Ok => result' # Ok
                /\ Raising(calls') = {} => result' = exc]_vars

\* a body that wrote on the cached connection and then raised: the exit rolled
\* the connection back and closed it, and the exception of the body came out
C28_Witness ==
    /\ op = "transaction.__exit__"
    /\ result = BodyError
    /\ Len(calls) = 2
    /\ calls[1].call = "rollback"
    /\ calls[2].call = "close"
    /\ Raising(calls) = {}
    /\ ~conns[calls[2].conn].open
    /\ ~in_tx
    /\ tx_conn = 0

\* C29: a builder terminal call that raises a validation error (no table, a
\* table or a where, group_by, order_by or payload column that is no
\* identifier, no payload, insert rows with other columns than the first,
\* UPDATE or DELETE without where) leaves every field of the QueryState as
\* it was, so that all of it is still pending for the next terminal call.
C29_FailedValidationKeepsState ==
    [][(op' \in BuilderTerminals /\ result' \in ValueErrors)
          => UNCHANGED <<table, selects, wheres, group_by, order_by, rows,
                         joins, havings, limit_offset>>]_vars

\* an UPDATE refused for a payload column that is no identifier, with the
\* table, the payload and a where clause still pending
C29_Witness ==
    /\ op = "update"
    /\ result = ErrIdent
    /\ table.set
    /\ rows # <<>>
    /\ wheres # <<>>

\* C30: every UPDATE or DELETE that update() or delete() hands to the
\* driver has a WHERE with at least one predicate that is not the constant
\* 1=1, whatever where calls came before, where_not_in over an empty
\* collection included.
C30_DestructiveNeedsRestriction ==
    [][op' \in {"update", "delete"}
          => \A i \in Events(calls', "execute") :
                /\ Positions(calls'[i].sql, " WHERE ") # <<>>
                /\ \E k \in 1..Len(WherePredicates(calls'[i].sql)) :
                      WherePredicates(calls'[i].sql)[k] # <<"1=1">>]_vars

\* the calls that end a transaction
EndNames == {EndOp(TRUE), EndOp(FALSE), "transaction.__exit__"}

\* C31: transactions have no depth.  A begin_transaction, or the entry of a
\* with statement, in an open transaction changes nothing of it; every
\* end_transaction, and the exit of every with statement, the inner ones
\* included, settles and closes the cached connection, if any, and leaves
\* the manager idle; a statement then runs on a connection of its own with
\* autocommit that is not cached, also inside a with statement that is
\* still open; and an end with no connection cached makes no driver call.
C31_NoNestingDepth ==
    [][/\ (op' \in {"begin_transaction", "transaction.__enter__"} /\ in_tx)
             => in_tx' /\ tx_conn' = tx_conn /\ calls' = <<>>
       /\ op' \in EndNames
             => /\ ~in_tx'
                /\ tx_conn' = 0
                /\ IF tx_conn = 0 THEN calls' = <<>>
                   ELSE /\ Len(calls') = 2
                        /\ calls'[1].call \in {"commit", "rollback"}
                        /\ calls'[2].call = "close"
                        /\ \A i \in 1..2 : calls'[i].conn = tx_conn
       /\ (op' \in BuilderTerminals /\ ~in_tx /\ calls' # <<>>)
             => /\ calls'[1].call = "connect"
                /\ calls'[1].autocommit
                /\ tx_conn' = 0
                /\ ~in_tx']_vars

\* inside a with statement that is still open, after the exit of an inner
\* one ended the transaction, a statement ran on a connection of its own
\* with autocommit and closed it
C31_Witness ==
    /\ transaction_at = 1
    /\ ~in_tx
    /\ tx_conn = 0
    /\ op = "create"
    /\ result = Ok
    /\ calls[1].call = "connect"
    /\ calls[1].autocommit
    /\ \E i \in Events(calls, "close") : ~calls[i].raised

\* the fluent calls of the builder
FluentNames ==
    {"from_table", "where", "where_gt", "where_gte", "where_lt", "where_lte",
     "where_like", "where_in", "where_not_in", "where_is_null", "where_is_not_null",
     "select", "set", "sets", "group_by", "order_by_asc", "order_by_desc"}

\* C32: a fluent builder call, whether it returns or raises, makes no driver
\* call and leaves the transaction flag, the cached connection, the driver's
\* connections and the last-statement record as they were; begin_transaction
\* and end_transaction leave every field of the QueryState and the
\* last-statement record as they were.
C32_FluentAndBoundaryFrames ==
    [][/\ op' \in FluentNames
             => /\ calls' = <<>>
                /\ conns' = conns
                /\ UNCHANGED <<in_tx, tx_conn, last_query, last_params>>
       /\ op' \in {"begin_transaction", EndOp(TRUE), EndOp(FALSE)}
             => /\ UNCHANGED <<table, selects, wheres, group_by, order_by, rows>>
                /\ UNCHANGED <<joins, havings, limit_offset>>
                /\ UNCHANGED <<last_query, last_params>>]_vars

\* a select() with an alias that is no identifier raised in an open
\* transaction, the connection still cached and a statement still recorded
C32_Witness ==
    /\ op = "select"
    /\ result = ErrIdent
    /\ in_tx
    /\ tx_conn # 0
    /\ conns[tx_conn].open
    /\ last_query # <<>>
    /\ calls = <<>>

\* the SET list of an UPDATE: its text between SET and WHERE
SetList(sql) == Before(After(sql, " SET "), {" WHERE "})

\* the SET list that assigns a placeholder to each column of a row, in order
AssignsOf(row) ==
    Join([i \in 1..Len(row) |-> QuotedText(Keys(row)[i]) \o <<" = ", Placeholder>>],
         <<", ">>)

\* C33: with several payload rows pending, update() raises no error about
\* them: it is executed whenever it would be with the first row alone, its
\* SET list and its SET parameters are those of the first row only, and the
\* other rows are gone with the reset of the state.
C33_UpdateUsesFirstRow ==
    [][(op' = "update" /\ Len(rows) >= 2)
          => /\ (/\ ~NoTable /\ InGrammar(table.name)
                 /\ rows[1] # <<>>
                 /\ \A i \in 1..Len(rows[1]) : InGrammar(Keys(rows[1])[i])
                 /\ wheres # <<>>
                 /\ \A k \in 1..Len(wheres) : InGrammar(wheres[k].column))
                   => result' = Ok /\ Events(calls', "execute") # {}
             /\ \A i \in Events(calls', "execute") :
                   /\ SetList(calls'[i].sql) = AssignsOf(rows[1])
                   /\ calls'[i].params =
                         Tuple(BoundValues(RowBindings(rows[1]))
                               \o BoundValues(WhereBindings(wheres)))
                   /\ rows' = <<>>]_vars

\* an UPDATE was executed from the first of two pending rows, {a: 1, b: 2},
\* the second row, {a: 3, b: 4}, leaving no trace in it
C33_Witness ==
    /\ op = "update"
    /\ result = Ok
    /\ rows = <<>>
    /\ \E i \in Events(calls, "execute") :
          /\ Len(Positions(SetList(calls[i].sql), Placeholder)) = 2
          /\ calls[i].params = Tuple(<<1, 2, 10>>)

====
